---- MODULE Spec2Model ----
(***************************************************************************)
(* CoinRisqLab back end: the gap-aware backfill command (fetchOHLC.js),    *)
(* the CoinRisqLab 80 index calculation (calculateCoinRisqLab80.js) and    *)
(* the derived-metric commands (moving averages, VaR, portfolio            *)
(* volatility), modelled as state machines over the relational tables they *)
(* share.                                                                  *)
(*                                                                         *)
(* Time.  A DATETIME is an integer number of hours since an arbitrary      *)
(* epoch, a DATE is a day number (timestamp \div 24).  Timestamps in an    *)
(* API payload are finer (TicksPerHour ticks per hour), so that the        *)
(* formatting functions really truncate.  The process clock and the        *)
(* database clock are both UTC and a run does not span midnight.           *)
(*                                                                         *)
(* Numbers.  Prices, supplies and volumes are naturals; a quotient the     *)
(* code computes in floating point is kept as an exact fraction <<n, d>>.  *)
(***************************************************************************)
EXTENDS Integers, Sequences, FiniteSets, TLC

VARIABLES
    config,             \* the configuration of the commands: [COINGECKO_API_KEY], "" when not set
    snapshot,           \* the live snapshot process: position and locals of fetchCryptoMarketData
    fear_and_greed,     \* table fear_and_greed: day of the timestamp -> value
    fng,                \* the Fear and Greed command: [runs, limits], the limits it requested
    cryptocurrencies,   \* table: id -> [symbol, coingecko_id, image_url]
    ohlc,               \* table: <<crypto_id, timestamp>> -> [open, high, low, close, volume,
                        \*   market_cap], 0 standing for a zero or a NULL column
    market_data,        \* table: <<crypto_id, timestamp>> -> [price_usd, circulating_supply, volume_24h_usd,
                        \*   market_cap_rank], 0 standing for a zero or a NULL column
    bf,                 \* the backfill process: position and locals of fetchDailyData
    fetchLog,           \* the /market_chart requests issued by the current backfill run
    bfStart,            \* the keys of ohlc and market_data when the current backfill run started
    cryptocurrency_metadata, \* table: crypto_id -> categories (a set of tags)
    index_config,       \* table: id -> [index_name, base_level, divisor, base_date, max_constituents, is_active]
    index_history,      \* table: <<index_config_id, timestamp>> -> row; the key stands for the row id
    index_constituents, \* table: index_history_id -> (crypto_id -> row)
    ix,                 \* the index calculation processes: position and locals of each run
    ingested,           \* number of rows written by ingestion while index runs are observed
    crypto_moving_averages, \* table: row id -> [crypto_id, date, window_days, moving_average,
                        \*   num_observations]
    ma,                 \* the moving-average process: position and locals of calculateMovingAverages
    crypto_log_returns, \* table: <<crypto_id, date>> -> log_return
    crypto_var,         \* table: row id -> [crypto_id, date, window_days, num_observations]
    vr,                 \* the VaR processes: position and locals of each calculateVaRStats run
    portfolio_volatility, \* table: row id -> [index_config_id, date, window_days, num_constituents,
                        \*   total_market_cap_usd]
    portfolio_volatility_constituents, \* table: portfolio_volatility_id -> (crypto_id -> row)
    pv                  \* the portfolio-volatility process: position and locals of the run

backfillVars == <<ohlc, bf, fetchLog, bfStart>>
indexVars == <<cryptocurrency_metadata, index_config, index_history, index_constituents, ix,
               ingested>>
metricVars == <<crypto_moving_averages, ma, crypto_log_returns, crypto_var, vr,
                portfolio_volatility, portfolio_volatility_constituents, pv>>
commandVars == <<config, snapshot, fear_and_greed, fng>>
vars == <<commandVars, cryptocurrencies, market_data, backfillVars, indexVars, metricVars>>

NULL == "NULL"

\* the API key is configured and no live snapshot runs
Configured == [COINGECKO_API_KEY |-> "CG-key"]
SnapshotIdle ==
    [pc |-> "idle", page |-> 0, fetchTimestamp |-> 0, successCount |-> 0,
     errorCount |-> 0, fetches |-> << >>, runs |-> 0]
FngIdle == [runs |-> 0, limits |-> << >>]
CommandsIdle ==
    /\ config = Configured
    /\ snapshot = SnapshotIdle
    /\ fear_and_greed = << >>
    /\ fng = FngIdle

\* no derived-metric row and no derived-metric process
MetricsIdle ==
    /\ crypto_moving_averages = << >>
    /\ ma = << >>
    /\ crypto_log_returns = << >>
    /\ crypto_var = << >>
    /\ vr = << >>
    /\ portfolio_volatility = << >>
    /\ portfolio_volatility_constituents = << >>
    /\ pv = << >>

(***************************************************************************)
(* Program constants of the backfill command                               *)
(***************************************************************************)
RECOVERY_WINDOW_DAYS == 730
HOURLY_BACKFILL_DAYS == 90
HOURLY_ENTRY_THRESHOLD == 500
DAYS_BUFFER == 2

(***************************************************************************)
(* Bounds of the model                                                     *)
(***************************************************************************)
Today == 800            \* CURDATE(), as a day number
TicksPerHour == 2       \* resolution of payload timestamps
DenseDays == 18         \* days of hourly rows held by an asset with hourly history

Min(a, b) == IF a < b THEN a ELSE b

\* DATE(timestamp), DATE_FORMAT(timestamp, '%Y-%m-%d')
DateOf(ts) == ts \div 24
\* `${dateStr} 00:00:00`
Midnight(d) == d * 24
\* formatDateString(new Date(ts)) for a payload timestamp
formatDateString(tick) == tick \div (24 * TicksPerHour)
\* formatHourlyTimestamp(new Date(ts)) for a payload timestamp
formatHourlyTimestamp(tick) == tick \div TicksPerHour

Yesterday == Today - 1

(***************************************************************************)
(* Payloads of GET /coins/{id}/market_chart                                *)
(***************************************************************************)
Tick(d, h, part) == ((d * 24) + h) * TicksPerHour + part

\* one closing point per day, a second point on yesterday, and a point of today
PayloadDaily ==
    [ok |-> TRUE, isArray |-> TRUE,
     prices |-> << <<Tick(Today - 730, 0, 0), 2>>, <<Tick(Today - 30, 0, 0), 2>>,
                   <<Tick(Today - 2, 0, 0), 2>>, <<Tick(Yesterday, 0, 0), 2>>,
                   <<Tick(Yesterday, 5, 1), 3>>, <<Tick(Today, 1, 0), 4>> >>,
     market_caps |-> << <<Tick(Today - 730, 0, 0), 20>>, <<Tick(Today - 30, 0, 0), 20>>,
                        <<Tick(Today - 2, 0, 0), 20>>, <<Tick(Yesterday, 0, 0), 20>>,
                        <<Tick(Yesterday, 5, 1), 30>>, <<Tick(Today, 1, 0), 40>> >>,
     total_volumes |-> << <<Tick(Today - 730, 0, 0), 7>>, <<Tick(Today - 30, 0, 0), 7>>,
                          <<Tick(Today - 2, 0, 0), 7>>, <<Tick(Yesterday, 0, 0), 7>>,
                          <<Tick(Yesterday, 5, 1), 7>>, <<Tick(Today, 1, 0), 7>> >>]

\* a day older than the window, a zero price, two points within one hour,
\* and market-cap and volume series shorter than the price series
PayloadRagged ==
    [ok |-> TRUE, isArray |-> TRUE,
     prices |-> << <<Tick(Today - 731, 0, 0), 2>>, <<Tick(Today - 30, 3, 0), 2>>,
                   <<Tick(Today - 30, 3, 1), 5>>, <<Tick(Today - 2, 0, 0), 6>>,
                   <<Tick(Yesterday, 0, 0), 0>> >>,
     market_caps |-> << <<Tick(Today - 731, 0, 0), 20>>, <<Tick(Today - 30, 3, 0), 20>>,
                        <<Tick(Today - 30, 3, 1), 50>> >>,
     total_volumes |-> << <<Tick(Today - 731, 0, 0), 7>>, <<Tick(Today - 30, 3, 0), 0>>,
                          <<Tick(Today - 30, 3, 1), 9>> >>]

PayloadEmpty ==
    [ok |-> TRUE, isArray |-> TRUE, prices |-> << >>, market_caps |-> << >>,
     total_volumes |-> << >>]
\* a body whose prices member is not an array
PayloadInvalid ==
    [ok |-> TRUE, isArray |-> FALSE, prices |-> << >>, market_caps |-> << >>,
     total_volumes |-> << >>]
\* response.ok is false
PayloadHttpError ==
    [ok |-> FALSE, isArray |-> FALSE, prices |-> << >>, market_caps |-> << >>,
     total_volumes |-> << >>]

Payloads == {PayloadDaily, PayloadRagged, PayloadEmpty, PayloadInvalid, PayloadHttpError}

\* fetchMarketChart: {data, error} for the payload the provider returned
fetchMarketChart(payload) ==
    IF ~payload.ok THEN [data |-> PayloadEmpty, error |-> "HTTP"]
    ELSE IF ~payload.isArray THEN [data |-> PayloadEmpty, error |-> "Invalid response format"]
    ELSE [data |-> payload, error |-> NULL]

(***************************************************************************)
(* Gap detection                                                           *)
(***************************************************************************)
\* the symbols of the model in the order of the column's collation, and the
\* position of a symbol in it (every symbol of a table that is sorted is listed)
SymbolsInOrder == <<"AAVE", "BTC", "ETH", "MKR", "SOL", "TRX", "XRP">>
SymbolRank(symbol) == CHOOSE i \in DOMAIN SymbolsInOrder : SymbolsInOrder[i] = symbol

\* ORDER BY symbol
RECURSIVE SortBySymbol(_)
SortBySymbol(S) ==
    IF S = {} THEN << >>
    ELSE LET first == CHOOSE c \in S :
                        \A d \in S : SymbolRank(cryptocurrencies[c].symbol)
                                        <= SymbolRank(cryptocurrencies[d].symbol)
         IN  <<first>> \o SortBySymbol(S \ {first})

\* dates on which the asset has a row in a table keyed <<crypto_id, timestamp>>
DatesOf(table, cryptoId, since) ==
    {DateOf(k[2]) : k \in {q \in DOMAIN table : q[1] = cryptoId /\ DateOf(q[2]) >= since}}

\* a cheap pass that flags every asset with an external id
detectCryptosWithDailyGapsAll ==
    SortBySymbol({c \in DOMAIN cryptocurrencies : cryptocurrencies[c].coingecko_id # NULL})

detectCryptosWithDailyGaps ==
    SortBySymbol({c \in DOMAIN cryptocurrencies :
        /\ cryptocurrencies[c].coingecko_id # NULL
        /\ \/ <<c, Midnight(Yesterday)>> \notin DOMAIN ohlc
           \/ ~\E k \in DOMAIN market_data : k[1] = c /\ DateOf(k[2]) = Yesterday})

SetMin(S) == CHOOSE x \in S : \A y \in S : x <= y
SetMax(S) == CHOOSE x \in S : \A y \in S : x >= y

\* the look-back of detectDetailedDailyGaps without the cap
DaysNeededUncapped(gapDates) ==
    IF gapDates = {} THEN 3 ELSE (Today - SetMin(gapDates)) + DAYS_BUFFER

\* daysNeeded of detectDetailedDailyGaps, from the dates missing in either table
DaysNeeded(gapDates) ==
    IF gapDates = {} THEN 3
    ELSE Min((Today - SetMin(gapDates)) + DAYS_BUFFER, RECOVERY_WINDOW_DAYS)

\* a detailed pass that looks at ohlc only
detectDetailedDailyGapsOhlcOnly(cryptoId) ==
    LET allDates == {Today - i : i \in 1..RECOVERY_WINDOW_DAYS}
        ohlcSet == DatesOf(ohlc, cryptoId, Today - RECOVERY_WINDOW_DAYS)
        ohlcMissing == allDates \ ohlcSet
        diffDays == Today - SetMin(ohlcMissing)
    IN  [ohlcMissing |-> ohlcMissing,
         mdMissing |-> {},
         daysNeeded |-> IF ohlcMissing = {} THEN 3
                        ELSE Min(diffDays + DAYS_BUFFER, RECOVERY_WINDOW_DAYS)]

detectDetailedDailyGaps(cryptoId) ==
    LET allDates == {Today - i : i \in 1..RECOVERY_WINDOW_DAYS}
        ohlcSet == DatesOf(ohlc, cryptoId, Today - RECOVERY_WINDOW_DAYS)
        mdSet == DatesOf(market_data, cryptoId, Today - RECOVERY_WINDOW_DAYS)
        ohlcMissing == allDates \ ohlcSet
        mdMissing == allDates \ mdSet
    IN  [ohlcMissing |-> ohlcMissing,
         mdMissing |-> mdMissing,
         daysNeeded |-> DaysNeeded(ohlcMissing \cup mdMissing)]

\* a detection that leaves out the count of entries
detectCryptosNeedingHourlyBackfillAll ==
    SortBySymbol({c \in DOMAIN cryptocurrencies : cryptocurrencies[c].coingecko_id # NULL})

\* detectCryptosNeedingHourlyBackfill
detectCryptosNeedingHourlyBackfill ==
    SortBySymbol({c \in DOMAIN cryptocurrencies :
        /\ cryptocurrencies[c].coingecko_id # NULL
        /\ Cardinality({k \in DOMAIN market_data :
                            k[1] = c /\ DateOf(k[2]) >= Today - HOURLY_BACKFILL_DAYS})
             < HOURLY_ENTRY_THRESHOLD})

(***************************************************************************)
(* Aggregation and upserts                                                 *)
(***************************************************************************)
\* value of the last point of day d in a series (Map.set overwrites)
LastOfDay(series, d) ==
    series[SetMax({i \in 1..Len(series) : formatDateString(series[i][1]) = d})][2]

DaysIn(series) ==
    {formatDateString(series[i][1]) : i \in 1..Len(series)} \ {Today}

\* the Map a loop of aggregateToDailyData has built after the first n points of a
\* series: each point that is not of today is set under its day, replacing the
\* value the day had
RECURSIVE setByDay(_, _)
setByDay(series, n) ==
    IF n = 0 THEN << >>
    ELSE LET dateStr == formatDateString(series[n][1])
         IN  IF dateStr = Today THEN setByDay(series, n - 1)
             ELSE (dateStr :> series[n][2]) @@ setByDay(series, n - 1)

\* an aggregation that keeps the first point of each day
aggregateToDailyDataFirst(data) ==
    LET FirstOfDay(series, d) ==
            series[SetMin({i \in 1..Len(series) : formatDateString(series[i][1]) = d})][2]
    IN  [d \in DaysIn(data.prices) |->
            [price |-> FirstOfDay(data.prices, d),
             marketCap |-> IF d \in DaysIn(data.market_caps)
                           THEN FirstOfDay(data.market_caps, d) ELSE 0,
             volume |-> IF d \in DaysIn(data.total_volumes)
                        THEN FirstOfDay(data.total_volumes, d) ELSE 0]]

\* aggregateToDailyData: the three Maps, then one entry per day of pricesByDay
aggregateToDailyData(data) ==
    LET pricesByDay == setByDay(data.prices, Len(data.prices))
        mcapsByDay == setByDay(data.market_caps, Len(data.market_caps))
        volumesByDay == setByDay(data.total_volumes, Len(data.total_volumes))
    IN  [d \in DOMAIN pricesByDay |->
            [price |-> pricesByDay[d],
             marketCap |-> IF d \in DOMAIN mcapsByDay THEN mcapsByDay[d] ELSE 0,
             volume |-> IF d \in DOMAIN volumesByDay THEN volumesByDay[d] ELSE 0]]

\* INSERT ... ON DUPLICATE KEY UPDATE on a table keyed <<crypto_id, timestamp>>
Upsert(table, key, row) ==
    [k \in DOMAIN table \cup {key} |-> IF k = key THEN row ELSE table[k]]

insertOhlcRecord(table, cryptoId, dateStr, price) ==
    LET key == <<cryptoId, Midnight(dateStr)>>
    IN  Upsert(table, key,
               [open |-> price, high |-> price, low |-> price, close |-> price,
                volume |-> IF key \in DOMAIN table THEN table[key].volume ELSE 0,
                market_cap |-> IF key \in DOMAIN table THEN table[key].market_cap ELSE 0])

\* the same insert with ON DUPLICATE KEY UPDATE col = VALUES(col)
insertMarketDataRecordUnguarded(table, cryptoId, timestamp, priceUsd, circulatingSupply, volume24h) ==
    Upsert(table, <<cryptoId, timestamp>>,
           [price_usd |-> priceUsd, circulating_supply |-> circulatingSupply,
            volume_24h_usd |-> volume24h,
            market_cap_rank |-> IF <<cryptoId, timestamp>> \in DOMAIN table
                                THEN table[<<cryptoId, timestamp>>].market_cap_rank ELSE 0])

insertMarketDataRecord(table, cryptoId, timestamp, priceUsd, circulatingSupply, volume24h) ==
    LET key == <<cryptoId, timestamp>>
        fresh == [price_usd |-> priceUsd, circulating_supply |-> circulatingSupply,
                  volume_24h_usd |-> volume24h, market_cap_rank |-> 0]
        old == table[key]
    IN  IF key \in DOMAIN table
        THEN Upsert(table, key,
                [price_usd |-> IF old.price_usd = 0 THEN priceUsd ELSE old.price_usd,
                 circulating_supply |-> IF old.circulating_supply = 0
                                        THEN circulatingSupply ELSE old.circulating_supply,
                 volume_24h_usd |-> IF old.volume_24h_usd = 0
                                    THEN volume24h ELSE old.volume_24h_usd,
                 market_cap_rank |-> old.market_cap_rank])
        ELSE Upsert(table, key, fresh)

\* marketCap / price; the payloads of the model carry caps that are multiples of the price
SupplyOf(marketCap, price) == marketCap \div price

(***************************************************************************)
(* The backfill command: fetchDailyData = runDailyBackfill ;               *)
(* runHourlyBackfill                                                       *)
(***************************************************************************)
NoGaps == [ohlcMissing |-> {}, mdMissing |-> {}, daysNeeded |-> 3]
ZeroDailyStats == [apiCalls |-> 0, ohlcInserted |-> 0, mdInserted |-> 0, apiErrors |-> 0]
ZeroHourlyStats == [apiCalls |-> 0, mdInserted |-> 0, apiErrors |-> 0]

BfIdle ==
    [pc |-> "idle", queue |-> << >>, gaps |-> NoGaps,
     dailyStats |-> ZeroDailyStats, hourlyStats |-> ZeroHourlyStats]

\* a day of dailyData goes to ohlc regardless of the missing-set
OhlcAcceptedAnyDate(dateStr, dayData, ohlcMissing) == dayData.price > 0

\* ohlcMissing.has(dateStr) && dayData.price > 0
OhlcAccepted(dateStr, dayData, ohlcMissing) ==
    dateStr \in ohlcMissing /\ dayData.price > 0

\* a market_data filter that fills yesterday only
MdAcceptedYesterdayOnly(dateStr, dayData, mdMissing) ==
    dateStr = Yesterday /\ dateStr \in mdMissing /\ dayData.price > 0 /\ dayData.marketCap > 0

\* mdMissing.has(dateStr) && dayData.price > 0 && dayData.marketCap > 0
MdAccepted(dateStr, dayData, mdMissing) ==
    dateStr \in mdMissing /\ dayData.price > 0 /\ dayData.marketCap > 0

\* the ohlc loop of processDailyBackfill over the days of dailyData
RECURSIVE InsertOhlcDays(_, _, _, _, _)
InsertOhlcDays(table, cryptoId, days, dailyData, ohlcMissing) ==
    IF days = {} THEN table
    ELSE LET d == SetMin(days)
             next == IF OhlcAccepted(d, dailyData[d], ohlcMissing)
                     THEN insertOhlcRecord(table, cryptoId, d, dailyData[d].price)
                     ELSE table
         IN  InsertOhlcDays(next, cryptoId, days \ {d}, dailyData, ohlcMissing)

\* the market_data loop of processDailyBackfill
RECURSIVE InsertMdDays(_, _, _, _, _)
InsertMdDays(table, cryptoId, days, dailyData, mdMissing) ==
    IF days = {} THEN table
    ELSE LET d == SetMin(days)
             dayData == dailyData[d]
             next == IF MdAccepted(d, dayData, mdMissing)
                     THEN insertMarketDataRecord(table, cryptoId, Midnight(d), dayData.price,
                              SupplyOf(dayData.marketCap, dayData.price), dayData.volume)
                     ELSE table
         IN  InsertMdDays(next, cryptoId, days \ {d}, dailyData, mdMissing)

\* the days counted in ohlcInserted and in mdInserted
OhlcInsertable(dailyData, ohlcMissing) ==
    {d \in DOMAIN dailyData : OhlcAccepted(d, dailyData[d], ohlcMissing)}

MdInsertable(dailyData, mdMissing) ==
    {d \in DOMAIN dailyData : MdAccepted(d, dailyData[d], mdMissing)}

\* the loop of processHourlyBackfill over data.prices, from index i on
SeriesAt(series, i) == IF i <= Len(series) THEN series[i][2] ELSE 0

\* an hourly filter that keeps the points of today
HourlyAcceptedAnyDay(data, i) ==
    /\ data.prices[i][2] > 0
    /\ SeriesAt(data.market_caps, i) > 0

HourlyAccepted(data, i) ==
    /\ formatDateString(data.prices[i][1]) # Today
    /\ data.prices[i][2] > 0
    /\ SeriesAt(data.market_caps, i) > 0

RECURSIVE InsertHourlyPoints(_, _, _, _)
InsertHourlyPoints(table, cryptoId, data, i) ==
    IF i > Len(data.prices) THEN table
    ELSE LET price == data.prices[i][2]
             next == IF HourlyAccepted(data, i)
                     THEN insertMarketDataRecord(table, cryptoId,
                              formatHourlyTimestamp(data.prices[i][1]), price,
                              SupplyOf(SeriesAt(data.market_caps, i), price),
                              SeriesAt(data.total_volumes, i))
                     ELSE table
         IN  InsertHourlyPoints(next, cryptoId, data, i + 1)

\* fetchDailyData up to the cheap pass of runDailyBackfill
\* a fetch issued once for each of the two tables
IssueFetchPerTable(log, coingeckoId, days, payload) ==
    Append(Append(log, [coingecko_id |-> coingeckoId, days |-> days, response |-> payload]),
           [coingecko_id |-> coingeckoId, days |-> days, response |-> payload])

\* the call of fetchMarketChart(coingeckoId, days): the request and what came back
IssueFetch(log, coingeckoId, days, payload) ==
    Append(log, [coingecko_id |-> coingeckoId, days |-> days, response |-> payload])

\* a loop that stays on the crypto whose fetch failed
RestOfQueueRetry(queue, failed) == IF failed THEN queue ELSE Tail(queue)

\* the for-of loops of runDailyBackfill and runHourlyBackfill: the next crypto,
\* whatever the result of the current one
RestOfQueue(queue, failed) == Tail(queue)

\* a fetchDailyData that goes on to the detection query whatever the configuration
StartBackfillUnchecked ==
    /\ bf.pc = "idle"
    /\ snapshot.pc = "idle"
    /\ bf' = [bf EXCEPT !.pc = "daily", !.queue = detectCryptosWithDailyGaps,
                        !.gaps = NoGaps,
                        !.dailyStats = ZeroDailyStats, !.hourlyStats = ZeroHourlyStats]
    /\ fetchLog' = << >>
    /\ bfStart' = [ohlc |-> DOMAIN ohlc, market_data |-> DOMAIN market_data]
    /\ UNCHANGED <<commandVars, cryptocurrencies, ohlc, market_data, indexVars>>
    /\ UNCHANGED metricVars

\* fetchDailyData up to the detection query of runDailyBackfill; without the API key
\* it throws before anything else (the backfill run of a behaviour precedes its live
\* snapshot runs)
StartBackfill ==
    /\ bf.pc = "idle"
    /\ snapshot.pc = "idle"
    /\ IF config.COINGECKO_API_KEY = ""
       THEN /\ bf' = [bf EXCEPT !.pc = "failed"]
            /\ UNCHANGED <<fetchLog, bfStart>>
       ELSE /\ bf' = [bf EXCEPT !.pc = "daily", !.queue = detectCryptosWithDailyGaps,
                                !.gaps = NoGaps,
                                !.dailyStats = ZeroDailyStats,
                                !.hourlyStats = ZeroHourlyStats]
            /\ fetchLog' = << >>
            /\ bfStart' = [ohlc |-> DOMAIN ohlc, market_data |-> DOMAIN market_data]
    /\ UNCHANGED <<commandVars, cryptocurrencies, ohlc, market_data, indexVars>>
    /\ UNCHANGED metricVars

\* processDailyBackfill, the detailed pass
DailyDetect ==
    /\ bf.pc = "daily"
    /\ bf.queue # << >>
    /\ LET gaps == detectDetailedDailyGaps(Head(bf.queue))
       IN  IF gaps.ohlcMissing = {} /\ gaps.mdMissing = {}
           THEN bf' = [bf EXCEPT !.queue = Tail(@), !.gaps = gaps]
           ELSE bf' = [bf EXCEPT !.pc = "daily_fetch", !.gaps = gaps]
    /\ UNCHANGED <<commandVars, cryptocurrencies, ohlc, market_data, fetchLog, bfStart, indexVars>>
    /\ UNCHANGED metricVars

\* processDailyBackfill from the fetch on, and the bookkeeping of runDailyBackfill
DailyFetch ==
    /\ bf.pc = "daily_fetch"
    /\ \E payload \in Payloads :
         LET cryptoId == Head(bf.queue)
             res == fetchMarketChart(payload)
             failed == res.error # NULL \/ Len(res.data.prices) = 0
             dailyData == aggregateToDailyData(res.data)
         IN  /\ fetchLog' = IssueFetch(fetchLog, cryptocurrencies[cryptoId].coingecko_id,
                                        bf.gaps.daysNeeded, payload)
             /\ IF failed
                THEN /\ bf' = [bf EXCEPT !.pc = "daily", !.queue = RestOfQueue(@, failed),
                                         !.dailyStats.apiCalls = @ + 1,
                                         !.dailyStats.apiErrors = @ + 1]
                     /\ UNCHANGED <<ohlc, market_data>>
                ELSE /\ ohlc' = InsertOhlcDays(ohlc, cryptoId, DOMAIN dailyData,
                                               dailyData, bf.gaps.ohlcMissing)
                     /\ market_data' = InsertMdDays(market_data, cryptoId, DOMAIN dailyData,
                                                    dailyData, bf.gaps.mdMissing)
                     /\ bf' = [bf EXCEPT
                          !.pc = "daily", !.queue = RestOfQueue(@, failed),
                          !.dailyStats.apiCalls = @ + 1,
                          !.dailyStats.ohlcInserted =
                              @ + Cardinality(OhlcInsertable(dailyData, bf.gaps.ohlcMissing)),
                          !.dailyStats.mdInserted =
                              @ + Cardinality(MdInsertable(dailyData, bf.gaps.mdMissing))]
    /\ UNCHANGED <<commandVars, cryptocurrencies, bfStart, indexVars>>
    /\ UNCHANGED metricVars

\* end of runDailyBackfill, and runHourlyBackfill up to its detection query
HourlyDetect ==
    /\ bf.pc = "daily"
    /\ bf.queue = << >>
    /\ bf' = [bf EXCEPT !.pc = "hourly", !.queue = detectCryptosNeedingHourlyBackfill]
    /\ UNCHANGED <<commandVars, cryptocurrencies, ohlc, market_data, fetchLog, bfStart, indexVars>>
    /\ UNCHANGED metricVars

\* processHourlyBackfill and the bookkeeping of runHourlyBackfill
\* an hourly pass that also writes the daily closes of the fetched series
HourlyFetchWithOhlc ==
    /\ bf.pc = "hourly"
    /\ bf.queue # << >>
    /\ \E payload \in Payloads :
         LET cryptoId == Head(bf.queue)
             res == fetchMarketChart(payload)
             failed == res.error # NULL \/ Len(res.data.prices) = 0
             dailyData == aggregateToDailyData(res.data)
         IN  /\ fetchLog' = IssueFetch(fetchLog, cryptocurrencies[cryptoId].coingecko_id,
                                        HOURLY_BACKFILL_DAYS, payload)
             /\ bf' = [bf EXCEPT !.queue = RestOfQueue(@, failed),
                                 !.hourlyStats.apiCalls = @ + 1]
             /\ IF failed
                THEN UNCHANGED <<ohlc, market_data>>
                ELSE /\ market_data' = InsertHourlyPoints(market_data, cryptoId, res.data, 1)
                     /\ ohlc' = InsertOhlcDays(ohlc, cryptoId, DOMAIN dailyData, dailyData,
                                               {Today - i : i \in 1..RECOVERY_WINDOW_DAYS})
    /\ UNCHANGED <<commandVars, cryptocurrencies, bfStart, indexVars>>
    /\ UNCHANGED metricVars

HourlyFetch ==
    /\ bf.pc = "hourly"
    /\ bf.queue # << >>
    /\ \E payload \in Payloads :
         LET cryptoId == Head(bf.queue)
             res == fetchMarketChart(payload)
             failed == res.error # NULL \/ Len(res.data.prices) = 0
         IN  /\ fetchLog' = IssueFetch(fetchLog, cryptocurrencies[cryptoId].coingecko_id,
                                        HOURLY_BACKFILL_DAYS, payload)
             /\ IF failed
                THEN /\ bf' = [bf EXCEPT !.queue = RestOfQueue(@, failed),
                                         !.hourlyStats.apiCalls = @ + 1,
                                         !.hourlyStats.apiErrors = @ + 1]
                     /\ UNCHANGED market_data
                ELSE /\ market_data' = InsertHourlyPoints(market_data, cryptoId, res.data, 1)
                     /\ bf' = [bf EXCEPT
                          !.queue = RestOfQueue(@, failed),
                          !.hourlyStats.apiCalls = @ + 1,
                          !.hourlyStats.mdInserted = @ + Cardinality(
                              {i \in 1..Len(res.data.prices) : HourlyAccepted(res.data, i)})]
    /\ UNCHANGED <<commandVars, cryptocurrencies, ohlc, bfStart, indexVars>>
    /\ UNCHANGED metricVars

\* end of runHourlyBackfill and the summary of fetchDailyData
BackfillDone ==
    /\ bf.pc = "hourly"
    /\ bf.queue = << >>
    /\ bf' = [bf EXCEPT !.pc = "done"]
    /\ UNCHANGED <<commandVars, cryptocurrencies, ohlc, market_data, fetchLog, bfStart, indexVars>>
    /\ UNCHANGED metricVars

(***************************************************************************)
(* Initial tables of the backfill specification                            *)
(***************************************************************************)
Window == {Today - i : i \in 1..RECOVERY_WINDOW_DAYS}

DailyRow == [price_usd |-> 1, circulating_supply |-> 1, volume_24h_usd |-> 0,
             market_cap_rank |-> 0]
OhlcRow == [open |-> 1, high |-> 1, low |-> 1, close |-> 1, volume |-> 0, market_cap |-> 0]

BackfillAssets ==
    (1 :> [symbol |-> "BTC", coingecko_id |-> "bitcoin", image_url |-> NULL]) @@
    (2 :> [symbol |-> "AAVE", coingecko_id |-> "aave", image_url |-> NULL]) @@
    (3 :> [symbol |-> "XRP", coingecko_id |-> NULL, image_url |-> NULL])

\* the days (counted back from today) missing initially from ohlc and from market_data
\* for asset 1: nothing, yesterday, an older day, the oldest day of the window, everything
GapScenarios ==
    { <<{}, {}>>, <<{1}, {1}>>, <<{1}, {}>>, <<{}, {1}>>, <<{30}, {}>>, <<{}, {30}>>,
      <<{1, 30}, {30}>>, <<{1, 730}, {}>>,
      <<1..RECOVERY_WINDOW_DAYS, 1..RECOVERY_WINDOW_DAYS>> }

\* keys of the hourly rows of an asset with hourly history
DenseKeys(c) == {<<c, (Today - i) * 24 + h>> : i \in 1..DenseDays, h \in 1..23}

DailyKeys(c, missing) == {<<c, Midnight(Today - i)>> : i \in (1..RECOVERY_WINDOW_DAYS) \ missing}

\* asset 1 per scenario, with or without hourly history; asset 2 either complete with
\* hourly history or without any row; asset 3 has no external id and no row
InitBackfill ==
    /\ cryptocurrencies = BackfillAssets
    /\ \E sc \in GapScenarios, dense1 \in BOOLEAN, full2 \in BOOLEAN :
         LET ohlcKeys == DailyKeys(1, sc[1]) \cup (IF full2 THEN DailyKeys(2, {}) ELSE {})
             mdKeys == DailyKeys(1, sc[2])
                       \cup (IF dense1 THEN DenseKeys(1) ELSE {})
                       \cup (IF full2 THEN DailyKeys(2, {}) \cup DenseKeys(2) ELSE {})
         IN  /\ ohlc = [k \in ohlcKeys |-> OhlcRow]
             /\ market_data = [k \in mdKeys |-> DailyRow]
    /\ bf = BfIdle
    /\ fetchLog = << >>
    /\ bfStart = [ohlc |-> {}, market_data |-> {}]
    /\ cryptocurrency_metadata = << >>
    /\ index_config = << >>
    /\ index_history = << >>
    /\ index_constituents = << >>
    /\ ix = << >>
    /\ ingested = 0
    /\ MetricsIdle
    /\ CommandsIdle

NextBackfill ==
    \/ StartBackfill
    \/ DailyDetect
    \/ DailyFetch
    \/ HourlyDetect
    \/ HourlyFetch
    \/ BackfillDone

SpecBackfill == InitBackfill /\ [][NextBackfill]_vars

(***************************************************************************)
(* Properties of the backfill command                                      *)
(***************************************************************************)
HasExternalId(c) == cryptocurrencies[c].coingecko_id # NULL

\* the run in progress started with a row of the asset on day d in the table
StartedWithOhlc(c, d) == <<c, Midnight(d)>> \in bfStart.ohlc
StartedWithMd(c, d) == \E k \in bfStart.market_data : k[1] = c /\ DateOf(k[2]) = d

\* every asset with an external id had yesterday's slot in both tables at the start
StartedCurrent ==
    \A c \in DOMAIN cryptocurrencies :
        HasExternalId(c) => StartedWithOhlc(c, Yesterday) /\ StartedWithMd(c, Yesterday)

\* every asset with an external id had the hourly threshold of rows at the start
StartedDense ==
    \A c \in DOMAIN cryptocurrencies :
        HasExternalId(c) =>
            Cardinality({k \in bfStart.market_data :
                            k[1] = c /\ DateOf(k[2]) >= Today - HOURLY_BACKFILL_DAYS})
                >= HOURLY_ENTRY_THRESHOLD

\* the days of the window on which the asset lacked a row in ohlc or in market_data
StartGaps(c) ==
    Window \ ({DateOf(k[2]) : k \in {q \in bfStart.ohlc : q[1] = c}}
              \cap {DateOf(k[2]) : k \in {q \in bfStart.market_data : q[1] = c}})

FetchedFor(c) ==
    \E i \in 1..Len(fetchLog) : fetchLog[i].coingecko_id = cryptocurrencies[c].coingecko_id

\* C1, as stated: a run started with yesterday's slot present in ohlc and in market_data
\* for every asset with an external id issues no external fetch
C1_NoFetchWhenYesterdayPresent ==
    (bf.pc # "idle" /\ StartedCurrent) => fetchLog = << >>

\* C1, amended: a run started with yesterday's slot present in ohlc and in market_data
\* and with at least HOURLY_ENTRY_THRESHOLD market_data rows in the trailing
\* HOURLY_BACKFILL_DAYS days, for every asset with an external id, issues no external fetch
C1_NoFetchWhenCurrentAndDense ==
    (bf.pc # "idle" /\ StartedCurrent /\ StartedDense) => fetchLog = << >>

\* a finished run that started current and dense, with an older day missing from ohlc
C1_Witness ==
    /\ bf.pc = "done"
    /\ StartedCurrent /\ StartedDense
    /\ ~StartedWithOhlc(1, Today - 30)
    /\ fetchLog = << >>

\* C2, as stated: once the daily pass of a run is over, every asset with an external id
\* that lacked at the start a daily slot of the recovery window in ohlc or in market_data,
\* wherever in the window, has had a fetch issued for it by the run
C2_FetchForAnyGap ==
    bf.pc \in {"hourly", "done"} =>
        \A c \in DOMAIN cryptocurrencies :
            (HasExternalId(c) /\ StartGaps(c) # {}) => FetchedFor(c)

\* C2, amended: once the daily pass of a run is over, every asset with an external id
\* that lacked yesterday's slot in ohlc or in market_data at the start has had a fetch
\* issued for it whose span reaches its oldest missing slot of the window plus the buffer,
\* capped at the window
C2_FetchForYesterdayGap ==
    bf.pc \in {"hourly", "done"} =>
        \A c \in DOMAIN cryptocurrencies :
            (HasExternalId(c) /\ Yesterday \in StartGaps(c)) =>
                \E i \in 1..Len(fetchLog) :
                    /\ fetchLog[i].coingecko_id = cryptocurrencies[c].coingecko_id
                    /\ fetchLog[i].days = Min(Today - SetMin(StartGaps(c)) + DAYS_BUFFER,
                                              RECOVERY_WINDOW_DAYS)

\* the daily pass is over for an asset that lacked yesterday's market_data slot only, and
\* for which the fetch spans the three days of the minimum
C2_Witness ==
    /\ bf.pc = "hourly"
    /\ StartGaps(1) = {Yesterday}
    /\ StartedWithOhlc(1, Yesterday)
    /\ \E i \in 1..Len(fetchLog) :
          fetchLog[i].coingecko_id = "bitcoin" /\ fetchLog[i].days = 1 + DAYS_BUFFER

\* C3: a step writes an ohlc row only in the daily pass, for the asset being processed, on
\* a date of the missing-set computed by the detailed pass, with the strictly positive
\* aggregated price; and no step changes or removes an ohlc row that exists
C3_OhlcOnlyMissingDates ==
    [][ /\ \A k \in DOMAIN ohlc : k \in DOMAIN ohlc' /\ ohlc'[k] = ohlc[k]
        /\ \A k \in DOMAIN ohlc' \ DOMAIN ohlc :
              /\ bf.pc = "daily_fetch"
              /\ k[1] = Head(bf.queue)
              /\ k[2] = Midnight(DateOf(k[2]))
              /\ DateOf(k[2]) \in detectDetailedDailyGaps(k[1]).ohlcMissing
              /\ DateOf(k[2]) \in bf.gaps.ohlcMissing
              /\ ohlc'[k].close > 0 ]_vars

\* a finished run that wrote an ohlc row although the payload also carried days the asset
\* already had
C3_Witness ==
    /\ bf.pc = "done"
    /\ \E k \in DOMAIN ohlc \ bfStart.ohlc : k[1] = 1
    /\ StartedWithOhlc(1, Today - 2)


(***************************************************************************)
(* The index calculation: calculateCoinRisqLab80.js                        *)
(***************************************************************************)
INDEX_NAME == "CoinRisqLab 80"
BASE_LEVEL == 100
MAX_CONSTITUENTS == 80
MIN_VOLUME_24H == 200000

\* exact fractions <<numerator, denominator>> in lowest terms, for the quotients the
\* code computes in floating point
RECURSIVE Gcd(_, _)
Gcd(a, b) == IF b = 0 THEN a ELSE Gcd(b, a % b)
Frac(n, d) == LET g == Gcd(n, d) IN <<n \div g, d \div g>>
FracDiv(n, f) == Frac(n * f[2], f[1])       \* n / f
SENTINEL_DIVISOR == Frac(1, 1)              \* divisor 1.0: not yet initialized

\* parseCategories: the tags in lower case; a tag is a sequence of words
ToLowerCase(word) ==
    CASE word = "Stablecoins" -> "stablecoin"
      [] word = "Wrapped" -> "wrapped"
      [] word = "Staking" -> "staking"
      [] word = "Staked" -> "staked"
      [] OTHER -> word
parseCategories(categories) ==
    {[i \in 1..Len(tag) |-> ToLowerCase(tag[i])] : tag \in categories}
Includes(tag, word) == \E i \in 1..Len(tag) : tag[i] = word
isStablecoin(categories) == \E c \in parseCategories(categories) : Includes(c, "stablecoin")
isWrapped(categories) == \E c \in parseCategories(categories) : Includes(c, "wrapped")
isStaked(categories) ==
    \E c \in parseCategories(categories) : Includes(c, "staking") \/ Includes(c, "staked")
isExcluded(crypto) ==
    isStablecoin(crypto.categories) \/ isWrapped(crypto.categories) \/ isStaked(crypto.categories)

\* the row of the join market_data x cryptocurrencies x cryptocurrency_metadata
JoinedRow(key) ==
    [market_data_id |-> key,
     crypto_id |-> key[1],
     price_usd |-> market_data[key].price_usd,
     circulating_supply |-> market_data[key].circulating_supply,
     volume_24h_usd |-> market_data[key].volume_24h_usd,
     market_cap_usd |-> market_data[key].price_usd * market_data[key].circulating_supply,
     timestamp |-> key[2],
     categories |-> IF key[1] \in DOMAIN cryptocurrency_metadata
                    THEN cryptocurrency_metadata[key[1]] ELSE {}]

\* the rows of the timestamp with a positive market cap, ORDER BY market cap DESC; rows of
\* equal market cap come in either order of their ids (the ids of cryptocurrencies are
\* 1..n, AUTO_INCREMENT without deletion)
getMarketDataForTimestamp(timestamp, tieAsc) ==
    LET Before(a, b) ==
            \/ a.market_cap_usd > b.market_cap_usd
            \/ /\ a.market_cap_usd = b.market_cap_usd
               /\ IF tieAsc THEN a.crypto_id < b.crypto_id ELSE a.crypto_id > b.crypto_id
        keys == SelectSeq([c \in 1..Cardinality(DOMAIN cryptocurrencies) |->
                              <<c, timestamp>>],
                          LAMBDA key : key \in DOMAIN market_data)
        joined == SelectSeq([i \in 1..Len(keys) |-> JoinedRow(keys[i])],
                            LAMBDA row : row.market_cap_usd > 0)
    IN  SortSeq(joined, Before)

Timestamps == {k[2] : k \in DOMAIN market_data}

\* {marketData, baseDate}; baseDate is meaningful only when marketData is not empty
getOldestMarketData(tieAsc) ==
    LET rows == IF Timestamps = {} THEN << >>
                ELSE getMarketDataForTimestamp(SetMin(Timestamps), tieAsc)
    IN  [marketData |-> rows,
         baseDate |-> IF Len(rows) > 0 THEN rows[1].timestamp ELSE Today * 24]

\* a selection that forgets the volume filter
selectConstituentsAnyVolume(marketData) ==
    LET Keep(crypto) == ~isExcluded(crypto)
        filtered == SelectSeq(marketData, Keep)
    IN  SubSeq(filtered, 1, Min(MAX_CONSTITUENTS, Len(filtered)))

selectConstituents(marketData) ==
    LET Keep(crypto) == ~isExcluded(crypto) /\ ~(crypto.volume_24h_usd < MIN_VOLUME_24H)
        filtered == SelectSeq(marketData, Keep)
    IN  SubSeq(filtered, 1, Min(MAX_CONSTITUENTS, Len(filtered)))

RECURSIVE SumCaps(_, _)
SumCaps(constituents, i) ==
    IF i > Len(constituents) THEN 0
    ELSE constituents[i].price_usd * constituents[i].circulating_supply
         + SumCaps(constituents, i + 1)

RECURSIVE SortAscending(_)
SortAscending(S) ==
    IF S = {} THEN << >> ELSE <<SetMin(S)>> \o SortAscending(S \ {SetMin(S)})

\* the same rows with ORDER BY md.timestamp DESC
getMissingIndexTimestampsDescending(indexConfigId, baseDate) ==
    LET ascending == SortAscending({t \in Timestamps :
                        /\ t >= baseDate
                        /\ <<indexConfigId, t>> \notin DOMAIN index_history})
    IN  [n \in 1..Len(ascending) |-> ascending[Len(ascending) + 1 - n]]

\* SELECT DISTINCT md.timestamp ... ORDER BY md.timestamp ASC
getMissingIndexTimestamps(indexConfigId, baseDate) ==
    SortAscending({t \in Timestamps :
        /\ t >= baseDate
        /\ <<indexConfigId, t>> \notin DOMAIN index_history})

\* rows of index_config WHERE index_name = ? AND is_active = TRUE
ActiveConfigs ==
    {id \in DOMAIN index_config :
        index_config[id].index_name = INDEX_NAME /\ index_config[id].is_active}

storeIndexHistory(table, indexConfigId, timestamp, totalMarketCap, indexLevel, divisor, numberOfConstituents) ==
    Upsert(table, <<indexConfigId, timestamp>>,
           [total_market_cap_usd |-> totalMarketCap, index_level |-> indexLevel,
            divisor |-> divisor, number_of_constituents |-> numberOfConstituents])

\* DELETE the constituents of the history row, then INSERT the new ones by rank
storeConstituents(table, indexHistoryId, constituents, totalMarketCap) ==
    Upsert(table, indexHistoryId,
        [c \in {constituents[i].crypto_id : i \in 1..Len(constituents)} |->
            LET i == CHOOSE j \in 1..Len(constituents) : constituents[j].crypto_id = c
                crypto == constituents[i]
            IN  [market_data_id |-> crypto.market_data_id,
                 rank_position |-> i,
                 price_usd |-> crypto.price_usd,
                 circulating_supply |-> crypto.circulating_supply,
                 weight_in_index |->
                     Frac(crypto.price_usd * crypto.circulating_supply * 100, totalMarketCap)]])

\* insertMarketData of the live snapshot command: every column takes the fetched value
OrZero(item, field) == IF field \in DOMAIN item THEN item[field] ELSE 0

insertMarketData(table, cryptoId, item, fetchTimestamp) ==
    Upsert(table, <<cryptoId, fetchTimestamp>>,
           [price_usd |-> OrZero(item, "current_price"),
            circulating_supply |-> OrZero(item, "circulating_supply"),
            volume_24h_usd |-> OrZero(item, "total_volume"),
            market_cap_rank |-> OrZero(item, "market_cap_rank")])

(***************************************************************************)
(* The processes of the index specification                                *)
(***************************************************************************)
MaxIngest == 1          \* rows written by ingestion while the runs execute

\* two invocations of the command by the cron job: the second follows the first or, when
\* the first lasts longer than the five minutes between them, overlaps it
IndexRuns == {1, 2}

NoConfig ==
    [id |-> 0, index_name |-> INDEX_NAME, base_level |-> BASE_LEVEL,
     divisor |-> SENTINEL_DIVISOR, base_date |-> 0,
     max_constituents |-> MAX_CONSTITUENTS, is_active |-> FALSE]
NoCalc == [constituents |-> << >>, totalMarketCap |-> 0, indexLevel |-> Frac(0, 1)]

IxIdle ==
    [pc |-> "idle", rows |-> << >>, indexConfig |-> NoConfig,
     missingTimestamps |-> << >>, i |-> 0, calc |-> NoCalc,
     successCount |-> 0, errorCount |-> 0]

WithId(id) == [id |-> id] @@ index_config[id]

\* the invocations start in the order of their numbers
CanStart(r) ==
    /\ ix[r].pc = "idle"
    /\ \A q \in IndexRuns : q < r => ix[q].pc # "idle"

\* a run that never takes the early return
DivisorInitializedNever(rows) == FALSE

\* rows.length > 0 && parseFloat(rows[0].divisor) !== 1.0
DivisorInitialized(rows) == Len(rows) > 0 /\ rows[1].divisor # SENTINEL_DIVISOR

\* a divisor that forgets the base level
CalculatedDivisorUnscaled(baseMarketCap) == Frac(baseMarketCap, 1)

\* baseMarketCap / BASE_LEVEL
CalculatedDivisor(baseMarketCap) == Frac(baseMarketCap, BASE_LEVEL)

\* a computation that accepts any number of constituents
InsufficientConstituentsNever(constituents) == FALSE

\* constituents.length < MAX_CONSTITUENTS
InsufficientConstituents(constituents) == Len(constituents) < MAX_CONSTITUENTS

\* a level that is the raw total
IndexLevelRaw(totalMarketCap, divisor) == Frac(totalMarketCap, 1)

\* totalMarketCap / parseFloat(indexConfig.divisor)
IndexLevel(totalMarketCap, divisor) == FracDiv(totalMarketCap, divisor)

\* getOrCreateIndexConfig: the SELECT and the early return
SelectConfig(r) ==
    /\ CanStart(r)
    /\ \E rows \in IF ActiveConfigs = {} THEN {<< >>}
                   ELSE {<<WithId(id)>> : id \in ActiveConfigs} :
         IF DivisorInitialized(rows)
         THEN ix' = [ix EXCEPT ![r] = [IxIdle EXCEPT !.pc = "missing", !.rows = rows,
                                                     !.indexConfig = rows[1]]]
         ELSE ix' = [ix EXCEPT ![r] = [IxIdle EXCEPT !.pc = "initialize", !.rows = rows]]
    /\ UNCHANGED <<commandVars, cryptocurrencies, market_data, backfillVars, cryptocurrency_metadata,
                   index_config, index_history, index_constituents, ingested>>
    /\ UNCHANGED metricVars

\* getOrCreateIndexConfig after the early return: the base snapshot, the divisor, and the
\* UPDATE of the row that was read or the INSERT of a new one
InitializeConfig(r) ==
    /\ ix[r].pc = "initialize"
    /\ \E tieAsc \in BOOLEAN :
        \E oldest \in {getOldestMarketData(tieAsc)} :
        \E constituents \in {selectConstituents(oldest.marketData)} :
         LET baseMarketCap == SumCaps(constituents, 1)
             calculatedDivisor == CalculatedDivisor(baseMarketCap)
             baseDate == oldest.baseDate
         IN  IF Len(constituents) = 0
             THEN /\ ix' = [ix EXCEPT ![r].pc = "failed"]
                  /\ UNCHANGED index_config
             ELSE IF Len(ix[r].rows) > 0
             THEN LET cfgRow == ix[r].rows[1]
                  IN  /\ index_config' =
                           [id \in DOMAIN index_config |->
                              IF id = cfgRow.id
                              THEN [index_config[id] EXCEPT !.divisor = calculatedDivisor,
                                                            !.base_date = baseDate]
                              ELSE index_config[id]]
                      /\ ix' = [ix EXCEPT ![r].pc = "missing",
                                  ![r].indexConfig = [cfgRow EXCEPT
                                                        !.divisor = calculatedDivisor,
                                                        !.base_date = baseDate]]
             ELSE LET insertId == IF DOMAIN index_config = {} THEN 1
                                  ELSE SetMax(DOMAIN index_config) + 1
                      row == [index_name |-> INDEX_NAME, base_level |-> BASE_LEVEL,
                              divisor |-> calculatedDivisor, base_date |-> baseDate,
                              max_constituents |-> MAX_CONSTITUENTS, is_active |-> TRUE]
                  IN  /\ index_config' = (insertId :> row) @@ index_config
                      /\ ix' = [ix EXCEPT ![r].pc = "missing",
                                          ![r].indexConfig = [id |-> insertId] @@ row]
    /\ UNCHANGED <<commandVars, cryptocurrencies, market_data, backfillVars, cryptocurrency_metadata,
                   index_history, index_constituents, ingested>>
    /\ UNCHANGED metricVars

\* calculateCoinRisqLab80, step 2
GetMissing(r) ==
    /\ ix[r].pc = "missing"
    /\ LET missing == getMissingIndexTimestamps(ix[r].indexConfig.id,
                                                ix[r].indexConfig.base_date)
       IN  IF Len(missing) = 0
           THEN ix' = [ix EXCEPT ![r].pc = "done"]
           ELSE ix' = [ix EXCEPT ![r].pc = "calc", ![r].missingTimestamps = missing,
                                 ![r].i = 1]
    /\ UNCHANGED <<commandVars, cryptocurrencies, market_data, backfillVars, cryptocurrency_metadata,
                   index_config, index_history, index_constituents, ingested>>
    /\ UNCHANGED metricVars

\* a loop that gives up at the first failed timestamp
AdvanceUntilError(run) ==
    IF run.i = Len(run.missingTimestamps) \/ run.errorCount > 0
    THEN [run EXCEPT !.pc = "done", !.calc = NoCalc]
    ELSE [run EXCEPT !.pc = "calc", !.i = @ + 1, !.calc = NoCalc]

\* the loop of calculateCoinRisqLab80 moves to the next timestamp
Advance(run) ==
    IF run.i = Len(run.missingTimestamps)
    THEN [run EXCEPT !.pc = "done", !.calc = NoCalc]
    ELSE [run EXCEPT !.pc = "calc", !.i = @ + 1, !.calc = NoCalc]

\* calculateIndexForTimestamp up to storeIndexHistory, and the catch of the loop
Calculate(r) ==
    /\ ix[r].pc = "calc"
    /\ \E tieAsc \in BOOLEAN :
        \E marketData \in {getMarketDataForTimestamp(ix[r].missingTimestamps[ix[r].i],
                                                     tieAsc)} :
        \E constituents \in {selectConstituents(marketData)} :
        \E totalMarketCap \in {SumCaps(constituents, 1)} :
         LET indexLevel == IndexLevel(totalMarketCap, ix[r].indexConfig.divisor)
         IN  IF Len(marketData) = 0 \/ InsufficientConstituents(constituents)
             THEN /\ ix' = [ix EXCEPT ![r] = Advance([@ EXCEPT !.errorCount = @ + 1])]
                  /\ UNCHANGED index_history
             ELSE /\ index_history' =
                        storeIndexHistory(index_history, ix[r].indexConfig.id,
                            ix[r].missingTimestamps[ix[r].i], totalMarketCap, indexLevel,
                            ix[r].indexConfig.divisor, Len(constituents))
                  /\ ix' = [ix EXCEPT ![r].pc = "store_constituents",
                                      ![r].calc = [constituents |-> constituents,
                                                   totalMarketCap |-> totalMarketCap,
                                                   indexLevel |-> indexLevel]]
    /\ UNCHANGED <<commandVars, cryptocurrencies, market_data, backfillVars, cryptocurrency_metadata,
                   index_config, index_constituents, ingested>>
    /\ UNCHANGED metricVars

\* calculateIndexForTimestamp: storeConstituents, and the success count of the loop
StoreConstituents(r) ==
    /\ ix[r].pc = "store_constituents"
    /\ index_constituents' = storeConstituents(index_constituents,
                                 <<ix[r].indexConfig.id, ix[r].missingTimestamps[ix[r].i]>>,
                                 ix[r].calc.constituents, ix[r].calc.totalMarketCap)
    /\ ix' = [ix EXCEPT ![r] = Advance([@ EXCEPT !.successCount = @ + 1])]
    /\ UNCHANGED <<commandVars, cryptocurrencies, market_data, backfillVars, cryptocurrency_metadata,
                   index_config, index_history, ingested>>
    /\ UNCHANGED metricVars

(***************************************************************************)
(* Market data of the index specification                                  *)
(***************************************************************************)
T0 == Midnight(Today - 2)
T1 == Midnight(Yesterday)
T2 == Midnight(Yesterday) + 1
BulkAssets == 1..78

IndexAssets == [c \in BulkAssets \cup 79..83 |-> [symbol |-> c, coingecko_id |-> "coin", image_url |-> NULL]]

IndexMetadata ==
    (82 :> {<<"Liquid", "Staking", "Tokens">>}) @@
    (81 :> {<<"Layer 1">>})

Row(price, supply, volume) ==
    [price_usd |-> price, circulating_supply |-> supply, volume_24h_usd |-> volume,
     market_cap_rank |-> 0]

\* 78 assets of market cap 1..78, asset 79 of market cap 1000, asset 80 of market cap 919
\* (at T1) and 1419 (at T2), asset 81 of market cap 1 (at T2), the staking token 82 and the
\* illiquid asset 83 of market cap 5000 each
IndexMarketData(has80) ==
    [k \in ({<<c, t>> : c \in BulkAssets \cup {79, 82, 83}, t \in {T1, T2}}
            \cup {<<80, T2>>, <<81, T2>>}
            \cup (IF has80 THEN {<<80, T1>>} ELSE {})) |->
        CASE k[1] \in BulkAssets -> Row(1, k[1], MIN_VOLUME_24H)
          [] k[1] = 79 -> Row(10, 100, 300000)
          [] k[1] = 80 -> IF k[2] = T1 THEN Row(919, 1, MIN_VOLUME_24H)
                          ELSE Row(1419, 1, MIN_VOLUME_24H)
          [] k[1] = 81 -> Row(1, 1, 250000)
          [] k[1] = 82 -> Row(50, 100, 900000)
          [] OTHER -> Row(50, 100, MIN_VOLUME_24H - 1)]

\* rows the daily or hourly backfill may write while index runs execute
BackfillPoints ==
    { [crypto_id |-> 80, timestamp |-> T1, price |-> 919, supply |-> 1,
       volume |-> MIN_VOLUME_24H],
      [crypto_id |-> 82, timestamp |-> T0, price |-> 50, supply |-> 100,
       volume |-> 900000] }

\* items the live snapshot may write while index runs execute
LiveItems ==
    { [crypto_id |-> 80, timestamp |-> T2,
       item |-> [current_price |-> 1500, circulating_supply |-> 1,
                 total_volume |-> MIN_VOLUME_24H, market_cap_rank |-> 80]] }

BackfillIngest ==
    /\ ingested < MaxIngest
    /\ \E p \in BackfillPoints :
         market_data' = insertMarketDataRecord(market_data, p.crypto_id, p.timestamp,
                                               p.price, p.supply, p.volume)
    /\ market_data' # market_data
    /\ ingested' = ingested + 1
    /\ UNCHANGED <<commandVars, cryptocurrencies, backfillVars, cryptocurrency_metadata, index_config,
                   index_history, index_constituents, ix>>
    /\ UNCHANGED metricVars

LiveIngest ==
    /\ ingested < MaxIngest
    /\ \E p \in LiveItems :
         market_data' = insertMarketData(market_data, p.crypto_id, p.item, p.timestamp)
    /\ market_data' # market_data
    /\ ingested' = ingested + 1
    /\ UNCHANGED <<commandVars, cryptocurrencies, backfillVars, cryptocurrency_metadata, index_config,
                   index_history, index_constituents, ix>>
    /\ UNCHANGED metricVars

SentinelConfig ==
    [index_name |-> INDEX_NAME, base_level |-> BASE_LEVEL, divisor |-> SENTINEL_DIVISOR,
     base_date |-> 0, max_constituents |-> MAX_CONSTITUENTS, is_active |-> TRUE]

InitIndex ==
    /\ cryptocurrencies = IndexAssets
    /\ cryptocurrency_metadata = IndexMetadata
    /\ \E has80 \in BOOLEAN : market_data = IndexMarketData(has80)
    /\ index_config \in {<< >>, 1 :> SentinelConfig}
    /\ index_history = << >>
    /\ index_constituents = << >>
    /\ ix = [r \in IndexRuns |-> IxIdle]
    /\ ingested = 0
    /\ ohlc = << >>
    /\ bf = BfIdle
    /\ fetchLog = << >>
    /\ bfStart = [ohlc |-> {}, market_data |-> {}]
    /\ MetricsIdle
    /\ CommandsIdle

NextIndex ==
    \/ \E r \in IndexRuns :
         \/ SelectConfig(r)
         \/ InitializeConfig(r)
         \/ GetMissing(r)
         \/ Calculate(r)
         \/ StoreConstituents(r)
    \/ BackfillIngest
    \/ LiveIngest

SpecIndex == InitIndex /\ [][NextIndex]_vars

(***************************************************************************)
(* Properties of the index calculation                                     *)
(***************************************************************************)
\* the assets that pass the filters at a timestamp, read off market_data
Eligible(timestamp) ==
    {c \in DOMAIN cryptocurrencies :
        /\ <<c, timestamp>> \in DOMAIN market_data
        /\ JoinedRow(<<c, timestamp>>).market_cap_usd > 0
        /\ ~isExcluded(JoinedRow(<<c, timestamp>>))
        /\ JoinedRow(<<c, timestamp>>).volume_24h_usd >= MIN_VOLUME_24H}

\* sum of the second components of a set of pairs
RECURSIVE PairSum(_)
PairSum(S) ==
    IF S = {} THEN 0
    ELSE LET p == CHOOSE q \in S : TRUE IN p[2] + PairSum(S \ {p})

\* sum of price x circulating supply over a sequence of joined rows
SeqCapSum(rows) ==
    PairSum({<<rows[i].crypto_id, rows[i].price_usd * rows[i].circulating_supply>> :
                i \in 1..Len(rows)})

\* sum of price x circulating supply over the stored constituents of a history row
StoredCapSum(rows) ==
    PairSum({<<c, rows[c].price_usd * rows[c].circulating_supply>> : c \in DOMAIN rows})

\* the history rows and the constituent sets that a step writes
WrittenHistory ==
    {key \in DOMAIN index_history' :
        key \notin DOMAIN index_history \/ index_history'[key] # index_history[key]}
WrittenConstituents ==
    {key \in DOMAIN index_constituents' :
        key \notin DOMAIN index_constituents
        \/ index_constituents'[key] # index_constituents[key]}

\* the run takes a step
Steps(r) == ix'[r] # ix[r]
\* the timestamp the run is computing
CurrentTimestamp(r) == ix[r].missingTimestamps[ix[r].i]

\* the run found, when it started, an active configuration with an initialized divisor
ReadInitialized(r) ==
    /\ ix[r].pc # "idle"
    /\ Len(ix[r].rows) > 0
    /\ ix[r].rows[1].divisor # SENTINEL_DIVISOR

\* C4: a run that starts when the active configuration holds a divisor other than the
\* sentinel takes the configuration as stored, works with it and never writes
\* index_config, whatever market data has been added
C4_InitializedConfigNeverRewritten ==
    [][ \A r \in IndexRuns :
          (Steps(r) /\ ReadInitialized(r)') =>
              /\ index_config' = index_config
              /\ ix'[r].pc # "initialize"
              /\ ix'[r].indexConfig = ix'[r].rows[1]
              /\ ix'[r].indexConfig = WithId(ix'[r].indexConfig.id) ]_vars

\* the second run started after the first had set the divisor and after a snapshot
\* older than base_date had been added, and it has finished
C4_Witness ==
    /\ ix[2].pc = "done"
    /\ ReadInitialized(2)
    /\ ~ReadInitialized(1)
    /\ <<82, T0>> \in DOMAIN market_data
    /\ \E id \in DOMAIN index_config :
          index_config[id].base_date = T1 /\ index_config[id].divisor = Frac(50, 1)

\* C5, as stated: no step changes an index_history row that exists, nor the constituents
\* stored for it
C5_HistoryNeverRewritten ==
    [][ \A key \in DOMAIN index_history :
          /\ key \in DOMAIN index_history'
          /\ index_history'[key] = index_history[key]
          /\ key \in DOMAIN index_constituents =>
                /\ key \in DOMAIN index_constituents'
                /\ index_constituents'[key] = index_constituents[key] ]_vars

\* C6: a step that writes an index_history row writes it with MAX_CONSTITUENTS
\* constituents, for a timestamp at which that many assets pass the filters; a step that
\* writes constituents writes MAX_CONSTITUENTS of them for a history row that exists; and
\* the computation of a timestamp at which fewer assets pass the filters writes neither
\* and is counted as an error
C6_ExactlyMaxConstituents ==
    [][ /\ \A key \in WrittenHistory :
              /\ index_history'[key].number_of_constituents = MAX_CONSTITUENTS
              /\ Cardinality(Eligible(key[2])) >= MAX_CONSTITUENTS
        /\ \A key \in WrittenConstituents :
              /\ Cardinality(DOMAIN index_constituents'[key]) = MAX_CONSTITUENTS
              /\ key \in DOMAIN index_history
        /\ \A r \in IndexRuns :
              (/\ Steps(r)
               /\ ix[r].pc = "calc"
               /\ Cardinality(Eligible(CurrentTimestamp(r))) < MAX_CONSTITUENTS) =>
                  /\ index_history' = index_history
                  /\ index_constituents' = index_constituents
                  /\ ix'[r].errorCount = ix[r].errorCount + 1
                  /\ ix'[r].successCount = ix[r].successCount ]_vars

\* a finished run that failed on the timestamp with 79 eligible assets and stored the
\* timestamp with 81 of them
C6_Witness ==
    /\ ix[1].pc = "done"
    /\ ix[1].errorCount = 1 /\ ix[1].successCount = 1
    /\ Cardinality(Eligible(T1)) = MAX_CONSTITUENTS - 1
    /\ <<ix[1].indexConfig.id, T1>> \notin DOMAIN index_history
    /\ <<ix[1].indexConfig.id, T2>> \in DOMAIN index_history
    /\ <<ix[1].indexConfig.id, T2>> \in DOMAIN index_constituents

\* C7: a step that writes an index_history row is the computation of a run for that
\* timestamp; the stored total is the sum of price x circulating supply over the
\* constituents the run selected, each taken from the market_data row of the timestamp;
\* the stored level is that total divided by the divisor of the configuration the run
\* works with, which the row records; and the constituents the run stores afterwards are
\* the selected ones, in their ranks
C7_TotalAndLevel ==
    [][ /\ \A key \in WrittenHistory :
              \E r \in IndexRuns :
                 LET selected == ix'[r].calc.constituents
                     divisor == ix[r].indexConfig.divisor
                     row == index_history'[key]
                 IN  /\ ix[r].pc = "calc" /\ ix'[r].pc = "store_constituents"
                     /\ key = <<ix[r].indexConfig.id, CurrentTimestamp(r)>>
                     /\ \A i \in 1..Len(selected) :
                           /\ selected[i].timestamp = key[2]
                           /\ selected[i].price_usd
                                = market_data[<<selected[i].crypto_id, key[2]>>].price_usd
                           /\ selected[i].circulating_supply
                                = market_data[<<selected[i].crypto_id, key[2]>>]
                                      .circulating_supply
                     /\ row.total_market_cap_usd = SeqCapSum(selected)
                     /\ row.divisor = divisor
                     /\ row.index_level
                          = Frac(row.total_market_cap_usd * divisor[2], divisor[1])
        /\ \A key \in WrittenConstituents :
              \E r \in IndexRuns :
                 LET selected == ix[r].calc.constituents
                     stored == index_constituents'[key]
                 IN  /\ ix[r].pc = "store_constituents"
                     /\ key = <<ix[r].indexConfig.id, CurrentTimestamp(r)>>
                     /\ DOMAIN stored = {selected[i].crypto_id : i \in 1..Len(selected)}
                     /\ \A i \in 1..Len(selected) :
                           /\ stored[selected[i].crypto_id].rank_position = i
                           /\ stored[selected[i].crypto_id].price_usd = selected[i].price_usd
                           /\ stored[selected[i].crypto_id].circulating_supply
                                = selected[i].circulating_supply
                     /\ StoredCapSum(stored) = ix[r].calc.totalMarketCap ]_vars

\* the base snapshot sums to 5000 and gives the divisor 50; the row of the later
\* snapshot, whose constituents sum to 5500, holds the level 110
C7_Witness ==
    \E id \in DOMAIN index_config :
        /\ index_config[id].divisor = Frac(50, 1)
        /\ <<id, T2>> \in DOMAIN index_history
        /\ <<id, T2>> \in DOMAIN index_constituents
        /\ index_history[<<id, T2>>].total_market_cap_usd = 5500
        /\ StoredCapSum(index_constituents[<<id, T2>>]) = 5500
        /\ index_history[<<id, T2>>].index_level = Frac(110, 1)

\* C8: the initialization of a run that found no active configuration or the sentinel
\* divisor leaves one row, the one it read or a new one, active, whose divisor is the sum
\* of price x circulating supply over the constituents selected from the earliest
\* market_data timestamp, divided by BASE_LEVEL, and whose base_date is that timestamp,
\* and touches no other row; and an initialization whose snapshot yields no constituent
\* fails and writes nothing
C8_Initialization ==
    [][ \A r \in IndexRuns :
          (Steps(r) /\ ix[r].pc = "initialize") =>
              LET hasData == Timestamps # {}
                  earliest == SetMin(Timestamps)
                  selected == IF hasData
                              THEN selectConstituents(
                                       getMarketDataForTimestamp(earliest, TRUE))
                              ELSE << >>
              IN  IF Len(selected) = 0
                  THEN /\ ix'[r].pc = "failed"
                       /\ UNCHANGED <<index_config, index_history, index_constituents>>
                  ELSE /\ ix'[r].pc = "missing"
                       /\ \E id \in DOMAIN index_config' :
                             /\ index_config'[id].divisor
                                  = Frac(SeqCapSum(selected), BASE_LEVEL)
                             /\ index_config'[id].base_date = earliest
                             /\ index_config'[id].is_active
                             /\ index_config'[id].index_name = INDEX_NAME
                             /\ ix'[r].indexConfig = [id |-> id] @@ index_config'[id]
                             /\ IF Len(ix[r].rows) > 0 THEN id = ix[r].rows[1].id
                                ELSE id \notin DOMAIN index_config
                             /\ \A other \in DOMAIN index_config \ {id} :
                                   /\ other \in DOMAIN index_config'
                                   /\ index_config'[other] = index_config[other]
                             /\ DOMAIN index_config' = DOMAIN index_config \cup {id}
                       /\ UNCHANGED <<index_history, index_constituents>> ]_vars

\* one run has set the divisor 50 from the snapshot at T1 that sums to 5000, and another,
\* initializing after a snapshot of the staking token alone arrived at T0, has failed
C8_Witness ==
    /\ \E id \in DOMAIN index_config :
          /\ index_config[id].divisor = Frac(50, 1)
          /\ index_config[id].base_date = T1
          /\ index_config[id].is_active
    /\ Cardinality(DOMAIN index_config) = 1
    /\ \E r \in IndexRuns : ix[r].pc = "failed"

\* C9, as stated: an index_history row at the base_date of its configuration holds the
\* level BASE_LEVEL
C9_BaseLevelAtBaseDate ==
    \A id \in DOMAIN index_config :
        <<id, index_config[id].base_date>> \in DOMAIN index_history =>
            index_history[<<id, index_config[id].base_date>>].index_level
                = Frac(BASE_LEVEL, 1)

\* C10, as stated: at most one active configuration for the index name
C10_AtMostOneActiveConfig == Cardinality(ActiveConfigs) <= 1

\* price x circulating supply of the asset's market_data row at the timestamp
CapAt(c, timestamp) ==
    market_data[<<c, timestamp>>].price_usd * market_data[<<c, timestamp>>].circulating_supply

\* C11: the constituents a run selects for a timestamp are MAX_CONSTITUENTS distinct
\* assets that pass the category and volume filters, listed by descending market cap,
\* and no asset that passes the filters and was left out has a larger market cap than a
\* selected one
C11_TopEligibleSelected ==
    [][ \A r \in IndexRuns :
          (ix[r].pc = "calc" /\ ix'[r].pc = "store_constituents") =>
              LET selected == ix'[r].calc.constituents
                  timestamp == CurrentTimestamp(r)
                  ids == {selected[i].crypto_id : i \in 1..Len(selected)}
              IN  /\ Len(selected) = MAX_CONSTITUENTS
                  /\ Cardinality(ids) = MAX_CONSTITUENTS
                  /\ ids \subseteq Eligible(timestamp)
                  /\ \A c \in ids :
                        /\ ~isExcluded(JoinedRow(<<c, timestamp>>))
                        /\ market_data[<<c, timestamp>>].volume_24h_usd >= MIN_VOLUME_24H
                  /\ \A i \in 1..(Len(selected) - 1) :
                        selected[i].market_cap_usd >= selected[i + 1].market_cap_usd
                  /\ \A i \in 1..Len(selected) :
                        selected[i].market_cap_usd = CapAt(selected[i].crypto_id, timestamp)
                  /\ \A d \in Eligible(timestamp) \ ids :
                        CapAt(d, timestamp) <= selected[Len(selected)].market_cap_usd ]_vars

\* the constituents stored for the later snapshot leave out the staking token and the
\* illiquid asset, whose market caps exceed that of every constituent, and one of the two
\* eligible assets of market cap 1
C11_Witness ==
    \E key \in DOMAIN index_constituents :
        /\ key[2] = T2
        /\ {82, 83} \cap DOMAIN index_constituents[key] = {}
        /\ \A c \in DOMAIN index_constituents[key] : CapAt(82, T2) > CapAt(c, T2)
        /\ \A c \in DOMAIN index_constituents[key] : CapAt(83, T2) > CapAt(c, T2)
        /\ isExcluded(JoinedRow(<<82, T2>>))
        /\ market_data[<<83, T2>>].volume_24h_usd < MIN_VOLUME_24H
        /\ Cardinality({1, 81} \cap DOMAIN index_constituents[key]) = 1

\* the run is inside the loop over its missing timestamps
InLoop(r) == ix[r].pc \in {"calc", "store_constituents"}

\* C12: the list a run works through holds every market_data timestamp at or after
\* base_date without an index_history row of its configuration when the list is read;
\* the run attempts the timestamps one after the other without skipping any, whether an
\* attempt fails or not; an attempt at a timestamp with MAX_CONSTITUENTS eligible assets
\* leaves an index_history row for it; and when the run completes, successes plus
\* failures equal the number of timestamps of the list
C12_EveryMissingTimestampAttempted ==
    [][ \A r \in IndexRuns :
          Steps(r) =>
              /\ ix[r].pc = "missing" =>
                    /\ {ix'[r].missingTimestamps[j] :
                            j \in 1..Len(ix'[r].missingTimestamps)}
                         = {t \in Timestamps :
                               /\ t >= ix[r].indexConfig.base_date
                               /\ <<ix[r].indexConfig.id, t>> \notin DOMAIN index_history}
                    /\ ix'[r].successCount + ix'[r].errorCount = 0
                    /\ ix'[r].pc = "done" <=> ix'[r].missingTimestamps = << >>
              /\ InLoop(r) =>
                    /\ ix'[r].missingTimestamps = ix[r].missingTimestamps
                    /\ ix'[r].i \in {ix[r].i, ix[r].i + 1}
                    /\ ix'[r].pc = "done" <=>
                          (ix'[r].i = ix[r].i /\ ix'[r].pc # "store_constituents"
                           /\ ix[r].i = Len(ix[r].missingTimestamps))
                    /\ ix'[r].pc \in {"calc", "store_constituents", "done"}
                    /\ ix'[r].successCount + ix'[r].errorCount
                         = IF ix'[r].pc = "done" THEN Len(ix[r].missingTimestamps)
                           ELSE IF ix'[r].pc = "calc" THEN ix'[r].i - 1
                           ELSE ix[r].i - 1
              /\ (ix[r].pc = "calc"
                  /\ Cardinality(Eligible(CurrentTimestamp(r))) >= MAX_CONSTITUENTS) =>
                    /\ <<ix[r].indexConfig.id, CurrentTimestamp(r)>>
                          \in DOMAIN index_history'
                    /\ ix'[r].errorCount = ix[r].errorCount ]_vars

\* a completed run whose first timestamp failed for want of constituents and whose
\* second timestamp got its row
C12_Witness ==
    \E r \in IndexRuns :
        /\ ix[r].pc = "done"
        /\ ix[r].missingTimestamps = <<T1, T2>>
        /\ ix[r].errorCount = 1 /\ ix[r].successCount = 1
        /\ <<ix[r].indexConfig.id, T1>> \notin DOMAIN index_history
        /\ <<ix[r].indexConfig.id, T2>> \in DOMAIN index_history

(***************************************************************************)
(* The index calculation with a process crash inside storeConstituents     *)
(***************************************************************************)
\* the number of constituent rows inserted when the process dies: none, or all but one
CrashPrefixes == {0, MAX_CONSTITUENTS - 1}

\* the history row is stored, the old constituents are deleted and the first inserted
\* rows are in place when the process dies (each statement is committed on its own); the
\* crash considered is that of a run which no later invocation overlaps
Crash(r) ==
    /\ ix[r].pc = "store_constituents"
    /\ \A q \in IndexRuns : q > r => ix[q].pc = "idle"
    /\ \E inserted \in CrashPrefixes :
         LET key == <<ix[r].indexConfig.id, ix[r].missingTimestamps[ix[r].i]>>
             partial == storeConstituents(index_constituents, key,
                            SubSeq(ix[r].calc.constituents, 1, inserted),
                            ix[r].calc.totalMarketCap)
         IN  index_constituents' =
                 IF inserted = 0
                 THEN [k \in DOMAIN index_constituents \ {key} |-> index_constituents[k]]
                 ELSE partial
    /\ ix' = [ix EXCEPT ![r].pc = "crashed"]
    /\ UNCHANGED <<commandVars, cryptocurrencies, market_data, backfillVars, cryptocurrency_metadata,
                   index_config, index_history, ingested>>
    /\ UNCHANGED metricVars

NextCrash ==
    \/ NextIndex
    \/ \E r \in IndexRuns : Crash(r)

SpecCrash == InitIndex /\ [][NextCrash]_vars

\* C13, as stated: when the first run crashed inside storeConstituents and the next run
\* has completed, the index_history row the first run was working on has as many
\* constituent rows as it records
C13_ConstituentsCompletedAfterCrash ==
    (ix[1].pc = "crashed" /\ ix[2].pc = "done") =>
        LET key == <<ix[1].indexConfig.id, ix[1].missingTimestamps[ix[1].i]>>
        IN  /\ key \in DOMAIN index_history
            /\ key \in DOMAIN index_constituents
            /\ Cardinality(DOMAIN index_constituents[key])
                 = index_history[key].number_of_constituents

(***************************************************************************)
(* Properties of the daily and hourly backfill passes (SpecBackfill).      *)
(***************************************************************************)
\* the dates of the recovery window without a row of the asset in the table
MissingDates(table, c) == Window \ {DateOf(k[2]) : k \in {q \in DOMAIN table : q[1] = c}}

\* the request issued by the step
LastFetch == fetchLog'[Len(fetchLog')]

\* the payload is an HTTP error, has no prices array, or has an empty one
FetchFailed(payload) == ~payload.ok \/ ~payload.isArray \/ payload.prices = << >>

\* C16: the look-back passed to the daily fetch is min((today - oldest missing
\* date) + 2, 730): 3 when only yesterday is missing, 32 when the oldest gap is 30
\* days back, never above 730, and for an asset without rows in the window the
\* detailed pass reports 730 missing dates and the look-back is 730.
C16_LookBack ==
    [][bf.pc = "daily_fetch" =>
        \E ohlcGaps \in {MissingDates(ohlc, Head(bf.queue))},
           mdGaps \in {MissingDates(market_data, Head(bf.queue))} :
          \E missing \in {ohlcGaps \cup mdGaps} :
            /\ Len(fetchLog') = Len(fetchLog) + 1
            /\ missing # {}
            /\ bf.gaps.ohlcMissing = ohlcGaps
            /\ bf.gaps.mdMissing = mdGaps
            /\ LastFetch.days = Min((Today - SetMin(missing)) + 2, RECOVERY_WINDOW_DAYS)
            /\ LastFetch.days <= 730
            /\ missing = {Yesterday} => LastFetch.days = 3
            /\ SetMin(missing) = Today - 30 => LastFetch.days = 32
            /\ (ohlcGaps = Window /\ mdGaps = Window) =>
                   /\ Cardinality(bf.gaps.ohlcMissing) = 730
                   /\ Cardinality(bf.gaps.mdMissing) = 730
                   /\ LastFetch.days = 730]_vars

\* one run that fetched 3 days for the asset missing only yesterday and 730 days for
\* the asset without any row
C16_Witness ==
    /\ \E i \in 1..Len(fetchLog) :
         fetchLog[i].coingecko_id = "bitcoin" /\ fetchLog[i].days = 3
    /\ \E i \in 1..Len(fetchLog) :
         fetchLog[i].coingecko_id = "aave" /\ fetchLog[i].days = 730
    /\ bf.pc = "daily"

\* C17: within one daily pass at most one fetch is issued per asset, however many
\* of its dates are missing and in however many tables.
C17_OneFetchPerAsset ==
    [][bf.pc = "daily_fetch" =>
        /\ Len(fetchLog') = Len(fetchLog) + 1
        /\ \A i \in 1..Len(fetchLog) :
             /\ fetchLog'[i] = fetchLog[i]
             /\ fetchLog[i].coingecko_id # LastFetch.coingecko_id
        /\ LastFetch.coingecko_id = cryptocurrencies[Head(bf.queue)].coingecko_id
        /\ \A i \in 1..Len(bf'.queue) : bf'.queue[i] # Head(bf.queue)]_vars

\* the daily pass is over and an asset that lacked every date of the window in both
\* tables was fetched once
C17_Witness ==
    /\ bf.pc = "hourly"
    /\ \A k \in bfStart.ohlc \cup bfStart.market_data : k[1] # 1
    /\ Cardinality({i \in 1..Len(fetchLog) : fetchLog[i].coingecko_id = "bitcoin"}) = 1

\* C18: when the fetch for an asset fails or returns no non-empty prices array,
\* the pass (daily or hourly) inserts nothing for the asset, counts one error,
\* does not fetch the asset again in the pass and goes on with the rest of the queue.
C18_FailedFetchSkipsAsset ==
    [][((bf.pc = "daily_fetch" \/ bf.pc = "hourly")
         /\ Len(fetchLog') = Len(fetchLog) + 1
         /\ FetchFailed(LastFetch.response))
        => /\ ohlc' = ohlc
           /\ market_data' = market_data
           /\ bf'.queue = Tail(bf.queue)
           /\ \A i \in 1..Len(bf'.queue) : bf'.queue[i] # Head(bf.queue)
           /\ bf'.pc = IF bf.pc = "daily_fetch" THEN "daily" ELSE "hourly"
           /\ IF bf.pc = "daily_fetch"
              THEN /\ bf'.dailyStats.apiErrors = bf.dailyStats.apiErrors + 1
                   /\ bf'.dailyStats.apiCalls = bf.dailyStats.apiCalls + 1
                   /\ bf'.dailyStats.ohlcInserted = bf.dailyStats.ohlcInserted
                   /\ bf'.dailyStats.mdInserted = bf.dailyStats.mdInserted
                   /\ bf'.hourlyStats = bf.hourlyStats
              ELSE /\ bf'.hourlyStats.apiErrors = bf.hourlyStats.apiErrors + 1
                   /\ bf'.hourlyStats.apiCalls = bf.hourlyStats.apiCalls + 1
                   /\ bf'.hourlyStats.mdInserted = bf.hourlyStats.mdInserted
                   /\ bf'.dailyStats = bf.dailyStats]_vars

\* a daily pass whose first fetch failed and whose second one inserted rows, the
\* failed asset being fetched once
C18_Witness ==
    /\ bf.pc = "hourly"
    /\ Len(fetchLog) = 2
    /\ FetchFailed(fetchLog[1].response)
    /\ ~FetchFailed(fetchLog[2].response)
    /\ fetchLog[1].coingecko_id # fetchLog[2].coingecko_id
    /\ bf.dailyStats.apiErrors = 1
    /\ bf.dailyStats.mdInserted > 0

\* the market cap the fetched series gives for the day, 0 when it has none
FetchedCap(payload, d) ==
    IF d \in DaysIn(payload.market_caps) THEN LastOfDay(payload.market_caps, d) ELSE 0

\* when the daily fetch of the step succeeded, every day d of it that is not today,
\* lacks a market_data row and has a positive price (and, with capRequired, a
\* positive market cap) has a market_data row afterwards
MdDaysInserted(capRequired) ==
    (bf.pc = "daily_fetch" /\ ~FetchFailed(LastFetch.response)) =>
        \E mdGaps \in {MissingDates(market_data, Head(bf.queue))} :
            \A d \in DaysIn(LastFetch.response.prices) :
                (/\ d # Today
                 /\ d \in mdGaps
                 /\ LastOfDay(LastFetch.response.prices, d) > 0
                 /\ capRequired => FetchedCap(LastFetch.response, d) > 0)
                    => <<Head(bf.queue), Midnight(d)>> \in DOMAIN market_data'

\* C19 as stated: in the daily pass every fetched day other than today that is in
\* the market_data missing-set and has a strictly positive price gets a
\* market_data row, whether or not the day is missing from ohlc.
C19_PositivePriceInserted ==
    [][MdDaysInserted(FALSE)]_vars

\* C19 as the code has it: every such day with a strictly positive price and a
\* strictly positive market cap gets a market_data row (holding the day's price
\* and market cap / price), whether or not the day is missing from ohlc.
C19_PositivePriceAndCapInserted ==
    [][/\ MdDaysInserted(TRUE)
       /\ (bf.pc = "daily_fetch" /\ ~FetchFailed(LastFetch.response)) =>
            \A key \in DOMAIN market_data' \ DOMAIN market_data :
                /\ key[1] = Head(bf.queue)
                /\ market_data'[key].price_usd
                     = LastOfDay(LastFetch.response.prices, DateOf(key[2]))
                /\ market_data'[key].circulating_supply
                     = FetchedCap(LastFetch.response, DateOf(key[2]))
                         \div market_data'[key].price_usd]_vars

\* the daily pass gave asset 1 a market_data row for yesterday, a day its ohlc
\* series already had
C19_Witness ==
    /\ bf.pc = "daily"
    /\ <<1, Midnight(Yesterday)>> \in DOMAIN market_data \ bfStart.market_data
    /\ <<1, Midnight(Yesterday)>> \in bfStart.ohlc

\* the step neither inserted nor changed a row of the table dated today
TodayUntouched(table, tableNext) ==
    \A key \in DOMAIN tableNext :
        DateOf(key[2]) = Today => key \in DOMAIN table /\ tableNext[key] = table[key]

\* C20: no backfill pass, daily or hourly, writes an ohlc or market_data row whose
\* UTC date is the current day.
C20_TodayNeverWritten ==
    [][TodayUntouched(ohlc, ohlc') /\ TodayUntouched(market_data, market_data')]_vars

\* a finished run whose daily pass and whose hourly pass each got a series with a
\* point of today and inserted rows from it
C20_Witness ==
    /\ bf.pc = "done"
    /\ \E i \in 1..bf.dailyStats.apiCalls :
         /\ fetchLog[i].response = PayloadDaily
         /\ \E j \in 1..Len(PayloadDaily.prices) :
              formatDateString(PayloadDaily.prices[j][1]) = Today
    /\ \E i \in (bf.dailyStats.apiCalls + 1)..Len(fetchLog) :
         fetchLog[i].response = PayloadDaily
    /\ bf.dailyStats.ohlcInserted > 0
    /\ bf.hourlyStats.mdInserted > 0

\* C21: the hourly pass leaves the daily close series unchanged: it inserts,
\* updates and deletes no ohlc row.
C21_HourlyPassKeepsOhlc ==
    [][bf.pc = "hourly" => ohlc' = ohlc]_vars

\* a finished run whose hourly pass inserted market_data rows for an asset that
\* still lacks daily closes
C21_Witness ==
    /\ bf.pc = "done"
    /\ bf.hourlyStats.mdInserted > 0
    /\ \E i \in (bf.dailyStats.apiCalls + 1)..Len(fetchLog) :
         /\ ~FetchFailed(fetchLog[i].response)
         /\ fetchLog[i].coingecko_id = "bitcoin"
    /\ MissingDates(ohlc, 1) # {}

\* the volume the fetched series gives for the day, 0 when it has none
FetchedVolume(payload, d) ==
    IF d \in DaysIn(payload.total_volumes) THEN LastOfDay(payload.total_volumes, d) ELSE 0

\* C30: every ohlc row the backfill writes has open = high = low = close = the
\* day's aggregated price and carries the day's aggregated volume and market cap.
C30_OhlcRowCarriesVolumeAndCap ==
    [][(bf.pc = "daily_fetch" /\ ~FetchFailed(LastFetch.response)) =>
        \A key \in DOMAIN ohlc' \ DOMAIN ohlc :
            \E price \in {LastOfDay(LastFetch.response.prices, DateOf(key[2]))} :
                /\ ohlc'[key].open = price
                /\ ohlc'[key].high = price
                /\ ohlc'[key].low = price
                /\ ohlc'[key].close = price
                /\ ohlc'[key].volume = FetchedVolume(LastFetch.response, DateOf(key[2]))
                /\ ohlc'[key].market_cap = FetchedCap(LastFetch.response, DateOf(key[2]))]_vars

(***************************************************************************)
(* The three writers of market_data on one key space: processCrypto of the *)
(* live snapshot (fetchCryptoMarketData.js), and the daily and hourly      *)
(* backfill inserts (fetchDailyData).                                      *)
(***************************************************************************)
ToUpperCase(symbol) ==
    CASE symbol = "btc" -> "BTC"
      [] symbol = "eth" -> "ETH"
      [] symbol = "sol" -> "SOL"
      [] OTHER -> symbol

\* a getCryptoId that overwrites the external id of the row it finds
getCryptoIdOverwriting(table, symbol, coingeckoId, imageUrl) ==
    LET found == {id \in DOMAIN table : table[id].symbol = symbol}
        newId == Cardinality(DOMAIN table) + 1
    IN  IF found # {}
        THEN LET id == CHOOSE id \in found : TRUE
             IN  [id |-> id,
                  table |-> [table EXCEPT ![id].coingecko_id = coingeckoId,
                                          ![id].image_url = imageUrl]]
        ELSE [id |-> newId,
              table |-> Upsert(table, newId, [symbol |-> symbol, coingecko_id |-> coingeckoId,
                                              image_url |-> imageUrl])]

\* getCryptoId: the id of the row with that symbol (its coingecko_id is set when
\* it was NULL, its image_url always), or a new row
getCryptoId(table, symbol, coingeckoId, imageUrl) ==
    LET found == {id \in DOMAIN table : table[id].symbol = symbol}
        newId == Cardinality(DOMAIN table) + 1
    IN  IF found # {}
        THEN LET id == CHOOSE id \in found : TRUE
             IN  [id |-> id,
                  table |-> [table EXCEPT
                      ![id].coingecko_id = IF @ = NULL THEN coingeckoId ELSE @,
                      ![id].image_url = imageUrl]]
        ELSE [id |-> newId,
              table |-> Upsert(table, newId, [symbol |-> symbol, coingecko_id |-> coingeckoId,
                                              image_url |-> imageUrl])]

\* item.image || null
ImageOf(item) == IF "image" \in DOMAIN item THEN item.image ELSE NULL

\* processCrypto(item, fetchTimestamp)
processCrypto(item, fetchTimestamp) ==
    \E got \in {getCryptoId(cryptocurrencies, ToUpperCase(item.symbol), item.id,
                            ImageOf(item))} :
        /\ cryptocurrencies' = got.table
        /\ market_data' = insertMarketData(market_data, got.id, item, fetchTimestamp)
        /\ UNCHANGED <<commandVars, backfillVars, indexVars>>
        /\ UNCHANGED metricVars

\* the market_data insert of processDailyBackfill for one aggregated day
DailyUpsert(cryptoId, dateStr, dayData) ==
    /\ MdAccepted(dateStr, dayData, detectDetailedDailyGaps(cryptoId).mdMissing)
    /\ market_data' = insertMarketDataRecord(market_data, cryptoId, Midnight(dateStr),
                          dayData.price, SupplyOf(dayData.marketCap, dayData.price),
                          dayData.volume)
    /\ UNCHANGED <<commandVars, cryptocurrencies, backfillVars, indexVars>>
    /\ UNCHANGED metricVars

\* processHourlyBackfill on a one-point payload
HourlyUpsert(cryptoId, data) ==
    /\ HourlyAccepted(data, 1)
    /\ market_data' = InsertHourlyPoints(market_data, cryptoId, data, 1)
    /\ UNCHANGED <<commandVars, cryptocurrencies, backfillVars, indexVars>>
    /\ UNCHANGED metricVars

UpsertAssets == 1 :> [symbol |-> "BTC", coingecko_id |-> "bitcoin", image_url |-> NULL]

UpsertHours == {Midnight(Today - 2), Midnight(Yesterday), Midnight(Yesterday) + 1}

\* /coins/markets listings: two coins sharing one ticker, and a listing whose
\* supply and volume are null
SnapshotItems ==
    { [id |-> "bitcoin", symbol |-> "btc", current_price |-> 3, circulating_supply |-> 4,
       total_volume |-> 9, market_cap_rank |-> 1],
      [id |-> "batcat", symbol |-> "BTC", current_price |-> 3, market_cap_rank |-> 300] }

\* /market_chart points: <<price, market cap, volume>>
ChartValues == {<<2, 10, 7>>, <<2, 10, 0>>}

ChartPoint(hour, v) ==
    [prices |-> << <<hour * TicksPerHour, v[1]>> >>,
     market_caps |-> << <<hour * TicksPerHour, v[2]>> >>,
     total_volumes |-> << <<hour * TicksPerHour, v[3]>> >>]

InitUpsert ==
    /\ cryptocurrencies = UpsertAssets
    /\ market_data = << >>
    /\ ohlc = << >>
    /\ bf = BfIdle
    /\ fetchLog = << >>
    /\ bfStart = [ohlc |-> {}, market_data |-> {}]
    /\ cryptocurrency_metadata = << >>
    /\ index_config = << >>
    /\ index_history = << >>
    /\ index_constituents = << >>
    /\ ix = << >>
    /\ ingested = 0
    /\ MetricsIdle
    /\ CommandsIdle

NextUpsert ==
    \/ \E item \in SnapshotItems, fetchTimestamp \in UpsertHours :
         processCrypto(item, fetchTimestamp)
    \/ \E hour \in UpsertHours, v \in ChartValues :
         DailyUpsert(1, hour \div 24, [price |-> v[1], marketCap |-> v[2], volume |-> v[3]])
    \/ \E hour \in UpsertHours, v \in ChartValues :
         HourlyUpsert(1, ChartPoint(hour, v))

SpecUpsert == InitUpsert /\ [][NextUpsert]_vars

ZeroGuarded == {"price_usd", "circulating_supply", "volume_24h_usd"}

\* C14: once the stored price, circulating supply or 24h volume of a raw price
\* point is non-zero, no later write to the same key by the live snapshot upsert
\* or by the daily or hourly backfill upsert replaces it with zero.
C14_NonZeroNeverZeroed ==
    [][\A key \in DOMAIN market_data : \A field \in ZeroGuarded :
          market_data[key][field] # 0
            => key \in DOMAIN market_data' /\ market_data'[key][field] # 0]_vars

\* C15: a backfill upsert on an existing (asset, timestamp) keeps every non-zero
\* price, circulating supply and 24h volume and every other column of the row,
\* leaves every other row alone, and gives a zero field the fetched value.
C15_BackfillUpsertFillsOnlyZeros ==
    \A key \in DOMAIN market_data : \A v \in ChartValues :
        LET old == market_data[key]
            fetched == [price_usd |-> v[1], circulating_supply |-> SupplyOf(v[2], v[1]),
                        volume_24h_usd |-> v[3]]
            new == insertMarketDataRecord(market_data, key[1], key[2], fetched.price_usd,
                                          fetched.circulating_supply, fetched.volume_24h_usd)
        IN  /\ DOMAIN new = DOMAIN market_data
            /\ \A other \in DOMAIN market_data \ {key} : new[other] = market_data[other]
            /\ DOMAIN new[key] = DOMAIN old
            /\ \A field \in DOMAIN old :
                 new[key][field] = IF field \in ZeroGuarded /\ old[field] = 0
                                   THEN fetched[field] ELSE old[field]

\* a row of the live snapshot (rank 300, price 3) whose null supply and volume
\* were filled by a backfill upsert
C15_Witness ==
    \E key \in DOMAIN market_data :
        market_data[key] = [price_usd |-> 3, circulating_supply |-> 5, volume_24h_usd |-> 7,
                            market_cap_rank |-> 300]

(***************************************************************************)
(* Moving averages: calculateMovingAverages.  A run is a loop over the     *)
(* cryptos with enough ohlc days; between two runs the daily backfill may  *)
(* insert a missing daily close.                                           *)
(***************************************************************************)
DEFAULT_WINDOW_DAYS == 90
MINIMUM_WINDOW_DAYS == 7

MaxMARuns == 3          \* runs of the moving-average command

\* the cryptos of calculateMovingAverages: at least MINIMUM_WINDOW_DAYS distinct ohlc
\* dates, in symbol order
cryptosWithOhlc ==
    SortBySymbol({c \in DOMAIN cryptocurrencies :
        Cardinality({DateOf(k[2]) : k \in {q \in DOMAIN ohlc : q[1] = c}})
            >= MINIMUM_WINDOW_DAYS})

\* ORDER BY date ASC
InDateOrder(S) ==
    [n \in 1..Cardinality(S) |-> CHOOSE d \in S : Cardinality({e \in S : e <= d}) = n]

\* the dailyCloses query: per day before today the row with the latest timestamp among
\* the rows with a positive close, in date order
dailyCloses(table, cryptoId) ==
    LET keys == {k \in DOMAIN table :
                    k[1] = cryptoId /\ DateOf(k[2]) < Today /\ table[k].close > 0}
        dates == InDateOrder({DateOf(k[2]) : k \in keys})
    IN  [n \in 1..Len(dates) |->
            [date |-> dates[n],
             close |-> table[<<cryptoId,
                                SetMax({k[2] : k \in {q \in keys : DateOf(q[2]) = dates[n]}})>>].close]]

\* a window that is not capped
actualWindowDaysUncapped(i) == i + 1

\* Math.min(i + 1, DEFAULT_WINDOW_DAYS) for the zero-based index i
actualWindowDays(i) == Min(i + 1, DEFAULT_WINDOW_DAYS)

\* an existence check that finds nothing
MAExistsNever(table, cryptoId, date, windowDays) == FALSE

\* SELECT id FROM crypto_moving_averages WHERE crypto_id = ? AND date = ? AND window_days = ?
MAExists(table, cryptoId, date, windowDays) ==
    \E id \in DOMAIN table :
        /\ table[id].crypto_id = cryptoId
        /\ table[id].date = date
        /\ table[id].window_days = windowDays

RECURSIVE SumCloses(_, _, _)
\* the sum of closes[from..to] (one-based, inclusive)
SumCloses(closes, from, to) ==
    IF from > to THEN 0
    ELSE IF from = to THEN closes[from].close
    ELSE SumCloses(closes, from, (from + to) \div 2)
         + SumCloses(closes, ((from + to) \div 2) + 1, to)

\* iteration i (zero-based) of the for loop of calculateMAForCrypto: the row it inserts
\* unless the key exists
MARow(cryptoId, closes, i) ==
    LET windowDays == actualWindowDays(i)
        numObservations == (i + 1) - ((i - windowDays) + 1)
    IN  [crypto_id |-> cryptoId, date |-> closes[i + 1].date,
         window_days |-> windowDays,
         moving_average |->
             Frac(SumCloses(closes, (i - windowDays) + 2, i + 1), numObservations),
         num_observations |-> numObservations]

\* the for loop of calculateMAForCrypto.  The dates of closes are distinct, so no
\* iteration finds a row that an earlier iteration of the same loop inserted, and every
\* existence check sees the table as it was before the loop.
MALoop(table, cryptoId, closes) ==
    LET rows == [n \in 1..(Len(closes) - (MINIMUM_WINDOW_DAYS - 1)) |->
                    MARow(cryptoId, closes, n + (MINIMUM_WINDOW_DAYS - 2))]
        missing == SelectSeq(rows, LAMBDA row :
                       ~MAExists(table, cryptoId, row.date, row.window_days))
    IN  [table |-> table \o missing, inserted |-> Len(missing),
         skipped |-> Len(rows) - Len(missing)]

calculateMAForCrypto(table, cryptoId) ==
    LET closes == dailyCloses(ohlc, cryptoId)
    IN  IF Len(closes) < MINIMUM_WINDOW_DAYS
        THEN [table |-> table, inserted |-> 0, skipped |-> 0]
        ELSE MALoop(table, cryptoId, closes)

\* ohlcAtStart and ohlcAtPrevStart: the ohlc table when this run and the run before
\* it started
MaIdle ==
    [pc |-> "idle", queue |-> << >>, totalCalculated |-> 0, totalSkipped |-> 0, runs |-> 0,
     ohlcAtStart |-> << >>, ohlcAtPrevStart |-> << >>]

OtherMetricsIdle ==
    /\ crypto_log_returns = << >>
    /\ crypto_var = << >>
    /\ vr = << >>
    /\ portfolio_volatility = << >>
    /\ portfolio_volatility_constituents = << >>
    /\ pv = << >>

StartMA ==
    /\ ma.pc = "idle"
    /\ ma.runs < MaxMARuns
    /\ ma' = [ma EXCEPT !.pc = "run", !.queue = cryptosWithOhlc,
                        !.totalCalculated = 0, !.totalSkipped = 0,
                        !.ohlcAtStart = ohlc, !.ohlcAtPrevStart = ma.ohlcAtStart]
    /\ UNCHANGED <<commandVars, cryptocurrencies, market_data, backfillVars, indexVars,
                   crypto_moving_averages, crypto_log_returns, crypto_var, vr,
                   portfolio_volatility, portfolio_volatility_constituents, pv>>

MAForCrypto ==
    /\ ma.pc = "run"
    /\ ma.queue # << >>
    /\ \E result \in {calculateMAForCrypto(crypto_moving_averages, Head(ma.queue))} :
         /\ crypto_moving_averages' = result.table
         /\ ma' = [ma EXCEPT !.queue = Tail(@),
                             !.totalCalculated = @ + result.inserted,
                             !.totalSkipped = @ + result.skipped]
    /\ UNCHANGED <<commandVars, cryptocurrencies, market_data, backfillVars, indexVars,
                   crypto_log_returns, crypto_var, vr,
                   portfolio_volatility, portfolio_volatility_constituents, pv>>

MADone ==
    /\ ma.pc = "run"
    /\ ma.queue = << >>
    /\ ma' = [ma EXCEPT !.pc = "idle", !.runs = @ + 1]
    /\ UNCHANGED <<commandVars, cryptocurrencies, market_data, backfillVars, indexVars,
                   crypto_moving_averages, crypto_log_returns, crypto_var, vr,
                   portfolio_volatility, portfolio_volatility_constituents, pv>>

\* the ohlc insert of processDailyBackfill for one aggregated day, between two runs
DailyOhlcInsert(cryptoId, dateStr, dayData) ==
    /\ ma.pc = "idle"
    /\ ingested < MaxIngest
    /\ OhlcAccepted(dateStr, dayData, detectDetailedDailyGaps(cryptoId).ohlcMissing)
    /\ ohlc' = insertOhlcRecord(ohlc, cryptoId, dateStr, dayData.price)
    /\ ingested' = ingested + 1
    /\ UNCHANGED <<commandVars, cryptocurrencies, market_data, bf, fetchLog, bfStart,
                   cryptocurrency_metadata, index_config, index_history,
                   index_constituents, ix, metricVars>>

MAAssets ==
    (1 :> [symbol |-> "AAVE", coingecko_id |-> "aave", image_url |-> NULL]) @@
    (2 :> [symbol |-> "BTC", coingecko_id |-> "bitcoin", image_url |-> NULL]) @@
    (3 :> [symbol |-> "TRX", coingecko_id |-> "tron", image_url |-> NULL])

CloseOn(d) == 1 + (d % 3)

CloseRow(close) ==
    [open |-> close, high |-> close, low |-> close, close |-> close, volume |-> 0,
     market_cap |-> 0]

\* asset 1: 95 days up to yesterday (day 50 back missing or not), a zero close 96 days
\* back and a row of today; asset 2: 9 days (day 4 back missing or not); asset 3: 6
\* days and a row of today
MAOhlc(hole1, hole2) ==
    [k \in {<<1, Midnight(Today - i)>> : i \in (0..96) \ hole1}
           \cup {<<2, Midnight(Today - i)>> : i \in (1..9) \ hole2}
           \cup {<<3, Midnight(Today - i)>> : i \in 0..6}
       |-> IF k = <<1, Midnight(Today - 96)>> THEN CloseRow(0)
           ELSE CloseRow(CloseOn(DateOf(k[2])))]

\* the days the backfill fetches between two runs
FilledDays == {<<1, Today - 50>>, <<2, Today - 4>>}

InitMA ==
    /\ cryptocurrencies = MAAssets
    /\ \E hole1 \in {{}, {50}}, hole2 \in {{}, {4}} : ohlc = MAOhlc(hole1, hole2)
    /\ market_data = << >>
    /\ bf = BfIdle
    /\ fetchLog = << >>
    /\ bfStart = [ohlc |-> {}, market_data |-> {}]
    /\ cryptocurrency_metadata = << >>
    /\ index_config = << >>
    /\ index_history = << >>
    /\ index_constituents = << >>
    /\ ix = << >>
    /\ ingested = 0
    /\ crypto_moving_averages = << >>
    /\ ma = MaIdle
    /\ OtherMetricsIdle
    /\ CommandsIdle

NextMA ==
    \/ StartMA
    \/ MAForCrypto
    \/ MADone
    \/ \E fill \in FilledDays :
         DailyOhlcInsert(fill[1], fill[2],
                         [price |-> CloseOn(fill[2]), marketCap |-> 20, volume |-> 7])

SpecMA == InitMA /\ [][NextMA]_vars

\* the number of eligible daily closes (positive, dated before today) of the asset up
\* to and including the date
EligibleCloses(table, cryptoId, date) ==
    Cardinality({DateOf(k[2]) : k \in {q \in DOMAIN table :
        /\ q[1] = cryptoId
        /\ DateOf(q[2]) < Today
        /\ DateOf(q[2]) <= date
        /\ table[q].close > 0}})

\* the dates of the asset's eligible daily closes
EligibleDates(table, cryptoId) ==
    {DateOf(k[2]) : k \in {q \in DOMAIN table :
        q[1] = cryptoId /\ DateOf(q[2]) < Today /\ table[q].close > 0}}

\* the (asset, date, window_days) keys a run over the table considers
MAKeysConsidered(table) ==
    UNION {{<<c, d, Min(EligibleCloses(table, c, d), DEFAULT_WINDOW_DAYS)>> :
               d \in {e \in EligibleDates(table, c) :
                         EligibleCloses(table, c, e) >= MINIMUM_WINDOW_DAYS}} :
           c \in DOMAIN cryptocurrencies}

MAKeysStored ==
    {<<crypto_moving_averages[id].crypto_id, crypto_moving_averages[id].date,
       crypto_moving_averages[id].window_days>> : id \in DOMAIN crypto_moving_averages}

\* C22: a second run of the moving-average calculator over an ohlc table unchanged
\* since the run before it inserts no row and skips every key it considers.
C22_SecondRunInsertsNothing ==
    (/\ ma.pc = "run"
     /\ ma.queue = << >>
     /\ ma.runs >= 1
     /\ ma.ohlcAtStart = ma.ohlcAtPrevStart)
    => /\ ma.totalCalculated = 0
       /\ MAKeysConsidered(ohlc) \subseteq MAKeysStored
       /\ ma.totalSkipped = Cardinality(MAKeysConsidered(ohlc))

\* the second of two runs over the same closes has skipped the 89 + 3 keys of the two
\* assets with seven closes or more
C22_Witness ==
    /\ ma.pc = "run"
    /\ ma.queue = << >>
    /\ ma.runs >= 1
    /\ ma.ohlcAtStart = ma.ohlcAtPrevStart
    /\ ma.totalSkipped = 92

\* the rows the step inserted
NewMARows ==
    {crypto_moving_averages'[id] :
        id \in DOMAIN crypto_moving_averages' \ DOMAIN crypto_moving_averages}

\* the row records min(k, 90) observations, k counted in the ohlc table given
MAWindowIs(row, table) ==
    \E k \in {EligibleCloses(table, row.crypto_id, row.date)} :
        /\ k >= 7
        /\ row.window_days = Min(k, 90)
        /\ row.window_days >= 7 /\ row.window_days <= 90
        /\ row.num_observations = row.window_days

\* C23 as stated: every moving-average row has window_days = min(k, 90), k being
\* the number of the asset's eligible daily closes up to the row's date; no row has
\* k < 7; num_observations = window_days.
C23_WindowIsEligibleCloses ==
    \A id \in DOMAIN crypto_moving_averages : MAWindowIs(crypto_moving_averages[id], ohlc)

\* C23 for the closes at the time of the run: every row a run inserts has
\* window_days = min(k, 90) for the k of the ohlc table the run reads, with k >= 7
\* and num_observations = window_days.
C23_WindowIsEligibleClosesAtInsert ==
    [][\A row \in NewMARows : MAWindowIs(row, ohlc)]_vars

\* a run has inserted a row with the minimum window and a row with the capped window
C23_Witness ==
    /\ \E id \in DOMAIN crypto_moving_averages :
         /\ crypto_moving_averages[id].window_days = 7
         /\ crypto_moving_averages[id].crypto_id = 1
    /\ \E id \in DOMAIN crypto_moving_averages :
         /\ crypto_moving_averages[id].window_days = 90
         /\ EligibleCloses(ohlc, 1, crypto_moving_averages[id].date) > 90

(***************************************************************************)
(* Value at risk: calculateVaRStats.  Each run of the command is a process *)
(* of vr.  SpecVaR runs the command again only when the run before it has  *)
(* finished, and a log return of an older day may be stored between two    *)
(* runs; SpecVaRRace lets the runs overlap, statement by statement.        *)
(***************************************************************************)
MINIMUM_DATA_POINTS == 7
MAX_WINDOW_DAYS == 365

MaxVaRRuns == 3         \* runs of the VaR command

VaRRuns == 1..MaxVaRRuns

\* the cryptos of calculateVaRStats: at least MINIMUM_DATA_POINTS log returns (of any
\* date), in symbol order
cryptosWithLogReturns ==
    SortBySymbol({c \in DOMAIN cryptocurrencies :
        Cardinality({k \in DOMAIN crypto_log_returns : k[1] = c}) >= MINIMUM_DATA_POINTS})

\* the dates of S in ascending order
AscendingDates(S) ==
    IF S = {} THEN << >>
    ELSE SelectSeq([n \in 1..((SetMax(S) - SetMin(S)) + 1) |-> (SetMin(S) + n) - 1],
                   LAMBDA d : d \in S)

\* the logReturns query: the log returns of the crypto dated before today, in date order
logReturnsOf(table, cryptoId) ==
    LET dates == AscendingDates({k[2] : k \in {q \in DOMAIN table :
                                                  q[1] = cryptoId /\ q[2] < Today}})
    IN  [n \in 1..Len(dates) |->
            [date |-> dates[n], log_return |-> table[<<cryptoId, dates[n]>>]]]

\* a window that starts at the first log return
windowStartUncapped(i) == 0

\* Math.max(0, i - MAX_WINDOW_DAYS + 1) for the zero-based index i
windowStart(i) == IF (i - MAX_WINDOW_DAYS) + 1 > 0 THEN (i - MAX_WINDOW_DAYS) + 1 ELSE 0

\* iteration i (zero-based) of the for loop of calculateVaRForCrypto: the row it inserts
\* unless the key exists.  Of the statistics of the window the row keeps the two that
\* are integers here, min_return and max_return.
VaRRow(cryptoId, logReturns, i) ==
    LET windowReturns == {logReturns[n].log_return : n \in (windowStart(i) + 1)..(i + 1)}
        windowDays == (i + 1) - windowStart(i)
    IN  [crypto_id |-> cryptoId, date |-> logReturns[i + 1].date,
         window_days |-> windowDays,
         min_return |-> SetMin(windowReturns), max_return |-> SetMax(windowReturns),
         num_observations |-> windowDays]

\* an existence check that finds nothing
VaRExistsNever(table, cryptoId, date, windowDays) == FALSE

\* SELECT id FROM crypto_var WHERE crypto_id = ? AND date = ? AND window_days = ?
VaRExists(table, cryptoId, date, windowDays) ==
    \E id \in DOMAIN table :
        /\ table[id].crypto_id = cryptoId
        /\ table[id].date = date
        /\ table[id].window_days = windowDays

\* a table without a unique key
DuplicateKeyNever(table, row) == FALSE

\* UNIQUE KEY idx_crypto_date_window (crypto_id, date, window_days) of ensureTableExists:
\* the INSERT of the row fails
DuplicateKey(table, row) ==
    \E id \in DOMAIN table :
        <<table[id].crypto_id, table[id].date, table[id].window_days>>
            = <<row.crypto_id, row.date, row.window_days>>

\* the cells of a row of the table, the id apart
VaRKey(row) == <<row.crypto_id, row.date, row.window_days>>

\* one run; attempts are the keys of the INSERT statements the run issued, and
\* returnsAtStart is the crypto_log_returns table when the run started
VrIdle ==
    [pc |-> "idle", queue |-> << >>, logReturns |-> << >>, i |-> 0,
     inserted |-> 0, skipped |-> 0,
     totalCalculated |-> 0, totalSkipped |-> 0, errors |-> 0,
     attempts |-> << >>, returnsAtStart |-> << >>]

\* the for loop of calculateVaRForCrypto, run without another writer of crypto_var.
\* The dates of logReturns are distinct, so every existence check sees the table as
\* it was before the loop for its key; an INSERT that the unique key rejects throws
\* and ends the loop.
VaRLoop(table, cryptoId, logReturns) ==
    LET rows == [n \in 1..(Len(logReturns) - (MINIMUM_DATA_POINTS - 1)) |->
                    VaRRow(cryptoId, logReturns, n + (MINIMUM_DATA_POINTS - 2))]
        missing == SelectSeq(rows, LAMBDA row :
                       ~VaRExists(table, cryptoId, row.date, row.window_days))
        rejected == {n \in 1..Len(missing) : DuplicateKey(table, missing[n])}
        stop == IF rejected = {} THEN Len(missing) + 1 ELSE SetMin(rejected)
    IN  [table |-> table \o SubSeq(missing, 1, stop - 1),
         attempts |-> [n \in 1..Min(stop, Len(missing)) |-> VaRKey(missing[n])],
         threw |-> rejected # {},
         inserted |-> Len(missing), skipped |-> Len(rows) - Len(missing)]

calculateVaRForCrypto(table, cryptoId) ==
    LET logReturns == logReturnsOf(crypto_log_returns, cryptoId)
    IN  IF Len(logReturns) < MINIMUM_DATA_POINTS
        THEN [table |-> table, attempts |-> << >>, threw |-> FALSE,
              inserted |-> 0, skipped |-> 0]
        ELSE VaRLoop(table, cryptoId, logReturns)

OtherThanVaRIdle ==
    /\ crypto_moving_averages = << >>
    /\ ma = << >>
    /\ portfolio_volatility = << >>
    /\ portfolio_volatility_constituents = << >>
    /\ pv = << >>

\* calculateVaRStats up to its loop, started when no other run is in progress
StartVaR(r) ==
    /\ vr[r].pc = "idle"
    /\ \A q \in VaRRuns : vr[q].pc \in {"idle", "done"}
    /\ \A q \in VaRRuns : q < r => vr[q].pc = "done"
    /\ vr' = [vr EXCEPT ![r] = [@ EXCEPT !.pc = "run", !.queue = cryptosWithLogReturns,
                                         !.returnsAtStart = crypto_log_returns]]
    /\ UNCHANGED <<commandVars, cryptocurrencies, market_data, backfillVars, indexVars,
                   crypto_moving_averages, ma, crypto_log_returns, crypto_var,
                   portfolio_volatility, portfolio_volatility_constituents, pv>>

\* one iteration of the loop of calculateVaRStats
VaRForCrypto(r) ==
    /\ vr[r].pc = "run"
    /\ vr[r].queue # << >>
    /\ \E result \in {calculateVaRForCrypto(crypto_var, Head(vr[r].queue))} :
         /\ crypto_var' = result.table
         /\ vr' = [vr EXCEPT ![r] =
                [@ EXCEPT !.queue = Tail(@),
                          !.attempts = @ \o result.attempts,
                          !.totalCalculated =
                              IF result.threw THEN @ ELSE @ + result.inserted,
                          !.totalSkipped =
                              IF result.threw THEN @ ELSE @ + result.skipped,
                          !.errors = IF result.threw THEN @ + 1 ELSE @]]
    /\ UNCHANGED <<commandVars, cryptocurrencies, market_data, backfillVars, indexVars,
                   crypto_moving_averages, ma, crypto_log_returns,
                   portfolio_volatility, portfolio_volatility_constituents, pv>>

VaRDone(r) ==
    /\ vr[r].pc = "run"
    /\ vr[r].queue = << >>
    /\ vr' = [vr EXCEPT ![r] = [@ EXCEPT !.pc = "done"]]
    /\ UNCHANGED <<commandVars, cryptocurrencies, market_data, backfillVars, indexVars,
                   crypto_moving_averages, ma, crypto_log_returns, crypto_var,
                   portfolio_volatility, portfolio_volatility_constituents, pv>>

\* the log-return calculator stores the return of a day that had none, between two
\* runs of the commands that read crypto_log_returns
LogReturnInsert(cryptoId, date, logReturn) ==
    /\ \A q \in DOMAIN vr : vr[q].pc \in {"idle", "done"}
    /\ "pc" \in DOMAIN pv => pv.pc = "idle"
    /\ ingested < MaxIngest
    /\ <<cryptoId, date>> \notin DOMAIN crypto_log_returns
    /\ crypto_log_returns' = crypto_log_returns @@ (<<cryptoId, date>> :> logReturn)
    /\ ingested' = ingested + 1
    /\ UNCHANGED <<commandVars, cryptocurrencies, market_data, backfillVars,
                   cryptocurrency_metadata, index_config, index_history,
                   index_constituents, ix,
                   crypto_moving_averages, ma, crypto_var, vr,
                   portfolio_volatility, portfolio_volatility_constituents, pv>>

VaRAssets ==
    (1 :> [symbol |-> "AAVE", coingecko_id |-> "aave", image_url |-> NULL]) @@
    (2 :> [symbol |-> "BTC", coingecko_id |-> "bitcoin", image_url |-> NULL]) @@
    (3 :> [symbol |-> "MKR", coingecko_id |-> "maker", image_url |-> NULL]) @@
    (4 :> [symbol |-> "TRX", coingecko_id |-> "tron", image_url |-> NULL])

LogReturnOn(d) == (d % 5) - 2

\* asset 1: 368 days up to yesterday (day 300 back missing or not); asset 2: 8 days
\* (day 3 back missing or not); asset 3: 6 days and a return of today; asset 4: 5 days
VaRLogReturns(hole1, hole2) ==
    [k \in {<<1, Today - i>> : i \in (1..368) \ hole1}
           \cup {<<2, Today - i>> : i \in (1..8) \ hole2}
           \cup {<<3, Today - i>> : i \in 0..6}
           \cup {<<4, Today - i>> : i \in 1..5}
       |-> LogReturnOn(k[2])]

\* the days whose return the log-return calculator stores between two runs
StoredLater == {<<1, Today - 300>>, <<2, Today - 3>>}

InitVaRTables ==
    /\ cryptocurrencies = VaRAssets
    /\ ohlc = << >>
    /\ market_data = << >>
    /\ bf = BfIdle
    /\ fetchLog = << >>
    /\ bfStart = [ohlc |-> {}, market_data |-> {}]
    /\ cryptocurrency_metadata = << >>
    /\ index_config = << >>
    /\ index_history = << >>
    /\ index_constituents = << >>
    /\ ix = << >>
    /\ ingested = 0
    /\ crypto_var = << >>
    /\ vr = [r \in VaRRuns |-> VrIdle]
    /\ OtherThanVaRIdle
    /\ CommandsIdle

InitVaR ==
    /\ InitVaRTables
    /\ \E hole1 \in {{}, {300}}, hole2 \in {{}, {3}} :
         crypto_log_returns = VaRLogReturns(hole1, hole2)

NextVaR ==
    \/ \E r \in VaRRuns : StartVaR(r)
    \/ \E r \in VaRRuns : VaRForCrypto(r)
    \/ \E r \in VaRRuns : VaRDone(r)
    \/ \E s \in StoredLater : LogReturnInsert(s[1], s[2], LogReturnOn(s[2]))

SpecVaR == InitVaR /\ [][NextVaR]_vars

\* the number of the asset's log returns dated before today, up to and including the
\* date
ReturnsUpTo(table, cryptoId, date) ==
    Cardinality({k \in DOMAIN table : k[1] = cryptoId /\ k[2] < Today /\ k[2] <= date})

\* the rows the step inserted
NewVaRRows == {crypto_var'[id] : id \in DOMAIN crypto_var' \ DOMAIN crypto_var}

\* the row records min(k, 365) observations, k counted in the log returns given
VaRWindowIs(row, table) ==
    \E k \in {ReturnsUpTo(table, row.crypto_id, row.date)} :
        /\ k >= 7
        /\ row.window_days = Min(k, 365)
        /\ row.num_observations = row.window_days

\* C24 as stated: every VaR row has window_days = num_observations = min(k, 365), k
\* being the number of the asset's log returns dated before today up to and
\* including the row's date; no row has k < 7.
C24_WindowIsReturnsCount ==
    \A id \in DOMAIN crypto_var : VaRWindowIs(crypto_var[id], crypto_log_returns)

\* C24 for the log returns at the time of the run: every row a run inserts has
\* window_days = num_observations = min(k, 365) for the k of the log returns the run
\* reads, with k >= 7.
C24_WindowIsReturnsCountAtInsert ==
    [][\A row \in NewVaRRows : VaRWindowIs(row, crypto_log_returns)]_vars

\* a run has inserted a row with the minimum window and a row with the capped window
\* for a date with more than 365 log returns
C24_Witness ==
    /\ \E id \in DOMAIN crypto_var :
         /\ crypto_var[id].window_days = 7
         /\ crypto_var[id].crypto_id = 1
    /\ \E id \in DOMAIN crypto_var :
         /\ crypto_var[id].window_days = 365
         /\ ReturnsUpTo(crypto_log_returns, 1, crypto_var[id].date) > 365

\* the keys of the INSERT statements the step issued for run r
NewAttempts(r) ==
    {vr'[r].attempts[n] : n \in (Len(vr[r].attempts) + 1)..Len(vr'[r].attempts)}

\* run r is not the first, has finished its loop, and started over the log returns
\* the run before it started over
RepeatedVaRRun(r) ==
    /\ r > 1
    /\ vr[r].pc \in {"run", "done"}
    /\ vr[r].queue = << >>
    /\ vr[r].returnsAtStart = vr[r - 1].returnsAtStart

\* C25: in a sequence of runs that do not overlap, every INSERT a run issues is for
\* an (asset, date, window_days) key that crypto_var does not hold, and a run over
\* the log returns of the run before it issues no INSERT and adds no row.
C25_InsertOnlyAbsentKeys ==
    [][/\ \A r \in VaRRuns : \A key \in NewAttempts(r) :
            ~VaRExists(crypto_var, key[1], key[2], key[3])
       /\ \A r \in VaRRuns : RepeatedVaRRun(r)' =>
            /\ vr'[r].attempts = << >>
            /\ vr'[r].totalCalculated = 0
            /\ vr'[r].errors = 0
      ]_vars

\* the second run has skipped every key the first run, over the same log returns,
\* inserted
C25_Witness ==
    /\ RepeatedVaRRun(2)
    /\ vr[1].attempts # << >>
    /\ vr[2].totalSkipped = Len(vr[1].attempts)
    /\ Len(crypto_var) = Len(vr[1].attempts)

\* C36: crypto_var holds at most one row for an asset and a date, over runs between
\* which the log-return calculator stores returns of older dates
C36_OneVaRRowPerAssetAndDate ==
    \A id1, id2 \in DOMAIN crypto_var :
        /\ crypto_var[id1].crypto_id = crypto_var[id2].crypto_id
        /\ crypto_var[id1].date = crypto_var[id2].date
        => id1 = id2

(***************************************************************************)
(* Overlapping runs of calculateVaRStats: every statement that reads or    *)
(* writes crypto_var is a step of its run.                                 *)
(***************************************************************************)
Racers == {1, 2}

\* the end of one iteration of the for loop of calculateVaRForCrypto: i++, and past the
\* last log return the function returns to the loop of calculateVaRStats
VrAdvance(run) ==
    IF run.i + 1 < Len(run.logReturns)
    THEN [run EXCEPT !.pc = "check", !.i = @ + 1]
    ELSE [run EXCEPT !.pc = "run", !.queue = Tail(@), !.logReturns = << >>, !.i = 0,
                     !.totalCalculated = @ + run.inserted,
                     !.totalSkipped = @ + run.skipped,
                     !.inserted = 0, !.skipped = 0]

\* calculateVaRStats up to its loop
VrBegin(r) ==
    /\ vr[r].pc = "idle"
    /\ vr' = [vr EXCEPT ![r] = [@ EXCEPT !.pc = "run", !.queue = cryptosWithLogReturns,
                                         !.returnsAtStart = crypto_log_returns]]
    /\ UNCHANGED <<commandVars, cryptocurrencies, market_data, backfillVars, indexVars,
                   crypto_moving_averages, ma, crypto_log_returns, crypto_var,
                   portfolio_volatility, portfolio_volatility_constituents, pv>>

\* the logReturns query of calculateVaRForCrypto and the test of its length
VrRead(r) ==
    /\ vr[r].pc = "run"
    /\ vr[r].queue # << >>
    /\ \E logReturns \in {logReturnsOf(crypto_log_returns, Head(vr[r].queue))} :
         vr' = [vr EXCEPT ![r] =
                   IF Len(logReturns) < MINIMUM_DATA_POINTS
                   THEN [@ EXCEPT !.queue = Tail(@)]
                   ELSE [@ EXCEPT !.pc = "check", !.logReturns = logReturns,
                                  !.i = MINIMUM_DATA_POINTS - 1,
                                  !.inserted = 0, !.skipped = 0]]
    /\ UNCHANGED <<commandVars, cryptocurrencies, market_data, backfillVars, indexVars,
                   crypto_moving_averages, ma, crypto_log_returns, crypto_var,
                   portfolio_volatility, portfolio_volatility_constituents, pv>>

\* the existence check of iteration i
VrCheck(r) ==
    /\ vr[r].pc = "check"
    /\ \E row \in {VaRRow(Head(vr[r].queue), vr[r].logReturns, vr[r].i)} :
         vr' = [vr EXCEPT ![r] =
                   IF VaRExists(crypto_var, row.crypto_id, row.date, row.window_days)
                   THEN VrAdvance([@ EXCEPT !.skipped = @ + 1])
                   ELSE [@ EXCEPT !.pc = "insert"]]
    /\ UNCHANGED <<commandVars, cryptocurrencies, market_data, backfillVars, indexVars,
                   crypto_moving_averages, ma, crypto_log_returns, crypto_var,
                   portfolio_volatility, portfolio_volatility_constituents, pv>>

\* a VrInsert whose rejected INSERT ends the whole run
VrInsertFatal(r) ==
    /\ vr[r].pc = "insert"
    /\ \E row \in {VaRRow(Head(vr[r].queue), vr[r].logReturns, vr[r].i)} :
         IF DuplicateKey(crypto_var, row)
         THEN /\ crypto_var' = crypto_var
              /\ vr' = [vr EXCEPT ![r] =
                           [@ EXCEPT !.pc = "run", !.queue = << >>,
                                     !.logReturns = << >>, !.i = 0,
                                     !.inserted = 0, !.skipped = 0,
                                     !.attempts = Append(@, VaRKey(row)),
                                     !.errors = @ + 1]]
         ELSE /\ crypto_var' = Append(crypto_var, row)
              /\ vr' = [vr EXCEPT ![r] =
                           VrAdvance([@ EXCEPT !.inserted = @ + 1,
                                               !.attempts = Append(@, VaRKey(row))])]
    /\ UNCHANGED <<commandVars, cryptocurrencies, market_data, backfillVars, indexVars,
                   crypto_moving_averages, ma, crypto_log_returns,
                   portfolio_volatility, portfolio_volatility_constituents, pv>>

\* the INSERT of iteration i; a rejected INSERT throws out of calculateVaRForCrypto
\* into the catch of the loop of calculateVaRStats
VrInsert(r) ==
    /\ vr[r].pc = "insert"
    /\ \E row \in {VaRRow(Head(vr[r].queue), vr[r].logReturns, vr[r].i)} :
         IF DuplicateKey(crypto_var, row)
         THEN /\ crypto_var' = crypto_var
              /\ vr' = [vr EXCEPT ![r] =
                           [@ EXCEPT !.pc = "run", !.queue = Tail(@),
                                     !.logReturns = << >>, !.i = 0,
                                     !.inserted = 0, !.skipped = 0,
                                     !.attempts = Append(@, VaRKey(row)),
                                     !.errors = @ + 1]]
         ELSE /\ crypto_var' = Append(crypto_var, row)
              /\ vr' = [vr EXCEPT ![r] =
                           VrAdvance([@ EXCEPT !.inserted = @ + 1,
                                               !.attempts = Append(@, VaRKey(row))])]
    /\ UNCHANGED <<commandVars, cryptocurrencies, market_data, backfillVars, indexVars,
                   crypto_moving_averages, ma, crypto_log_returns,
                   portfolio_volatility, portfolio_volatility_constituents, pv>>

VrEnd(r) ==
    /\ vr[r].pc = "run"
    /\ vr[r].queue = << >>
    /\ vr' = [vr EXCEPT ![r] = [@ EXCEPT !.pc = "done"]]
    /\ UNCHANGED <<commandVars, cryptocurrencies, market_data, backfillVars, indexVars,
                   crypto_moving_averages, ma, crypto_log_returns, crypto_var,
                   portfolio_volatility, portfolio_volatility_constituents, pv>>

\* asset 1: 9 days up to yesterday; asset 2: 8 days; asset 3: 6 days and a return of
\* today; asset 4: 5 days
RaceLogReturns ==
    [k \in {<<1, Today - i>> : i \in 1..9}
           \cup {<<2, Today - i>> : i \in 1..8}
           \cup {<<3, Today - i>> : i \in 0..6}
           \cup {<<4, Today - i>> : i \in 1..5}
       |-> LogReturnOn(k[2])]

InitVaRRace ==
    /\ cryptocurrencies = VaRAssets
    /\ ohlc = << >>
    /\ market_data = << >>
    /\ bf = BfIdle
    /\ fetchLog = << >>
    /\ bfStart = [ohlc |-> {}, market_data |-> {}]
    /\ cryptocurrency_metadata = << >>
    /\ index_config = << >>
    /\ index_history = << >>
    /\ index_constituents = << >>
    /\ ix = << >>
    /\ ingested = 0
    /\ crypto_log_returns = RaceLogReturns
    /\ crypto_var = << >>
    /\ vr = [r \in Racers |-> VrIdle]
    /\ OtherThanVaRIdle
    /\ CommandsIdle

NextVaRRace ==
    \/ \E r \in Racers : VrBegin(r)
    \/ \E r \in Racers : VrRead(r)
    \/ \E r \in Racers : VrCheck(r)
    \/ \E r \in Racers : VrInsert(r)
    \/ \E r \in Racers : VrEnd(r)

SpecVaRRace == InitVaRRace /\ [][NextVaRRace]_vars

\* C26: crypto_var never holds two rows with the same (crypto_id, date, window_days),
\* however the statements of overlapping runs interleave.
C26_NoDuplicateVaRKey ==
    \A id1, id2 \in DOMAIN crypto_var :
        VaRKey(crypto_var[id1]) = VaRKey(crypto_var[id2]) => id1 = id2

\* both runs found the same key absent and issued its INSERT; the table rejected the
\* second
C26_Witness ==
    /\ \E n1 \in DOMAIN vr[1].attempts, n2 \in DOMAIN vr[2].attempts :
         vr[1].attempts[n1] = vr[2].attempts[n2]
    /\ vr[1].errors + vr[2].errors > 0
    /\ crypto_var # << >>

(***************************************************************************)
(* Overlapping runs of calculateVaRStats followed by a run that begins     *)
(* after they have ended; the log-return calculator may store a return     *)
(* until that last run begins.                                             *)
(***************************************************************************)
LaterRun == SetMax(Racers) + 1

\* a run of calculateVaRStats started when no other run is in progress
VrBeginLater(r) ==
    /\ \A q \in Racers : vr[q].pc = "done"
    /\ VrBegin(r)

\* the log-return calculator stores a return while the overlapping runs execute or
\* after them
LogReturnArrives(cryptoId, date, logReturn) ==
    /\ vr[LaterRun].pc = "idle"
    /\ ingested < MaxIngest
    /\ <<cryptoId, date>> \notin DOMAIN crypto_log_returns
    /\ crypto_log_returns' = crypto_log_returns @@ (<<cryptoId, date>> :> logReturn)
    /\ ingested' = ingested + 1
    /\ UNCHANGED <<commandVars, cryptocurrencies, market_data, backfillVars,
                   cryptocurrency_metadata, index_config, index_history,
                   index_constituents, ix,
                   crypto_moving_averages, ma, crypto_var, vr,
                   portfolio_volatility, portfolio_volatility_constituents, pv>>

\* asset 1: 8 days up to the day before yesterday; asset 2: 7 such days; asset 3: 5 days
LaterLogReturns ==
    [k \in {<<1, Today - i>> : i \in 2..9}
           \cup {<<2, Today - i>> : i \in 2..8}
           \cup {<<3, Today - i>> : i \in 1..5}
       |-> LogReturnOn(k[2])]

\* yesterday's returns, which the calculator may store
ArrivingLater == {<<1, Today - 1>>, <<2, Today - 1>>}

InitVaRLater ==
    /\ cryptocurrencies = VaRAssets
    /\ ohlc = << >>
    /\ market_data = << >>
    /\ bf = BfIdle
    /\ fetchLog = << >>
    /\ bfStart = [ohlc |-> {}, market_data |-> {}]
    /\ cryptocurrency_metadata = << >>
    /\ index_config = << >>
    /\ index_history = << >>
    /\ index_constituents = << >>
    /\ ix = << >>
    /\ ingested = 0
    /\ crypto_log_returns = LaterLogReturns
    /\ crypto_var = << >>
    /\ vr = [r \in Racers \cup {LaterRun} |-> VrIdle]
    /\ OtherThanVaRIdle
    /\ CommandsIdle

NextVaRLater ==
    \/ \E r \in Racers : VrBegin(r)
    \/ VrBeginLater(LaterRun)
    \/ \E r \in DOMAIN vr : VrRead(r)
    \/ \E r \in DOMAIN vr : VrCheck(r)
    \/ \E r \in DOMAIN vr : VrInsert(r)
    \/ \E r \in DOMAIN vr : VrEnd(r)
    \/ \E s \in ArrivingLater : LogReturnArrives(s[1], s[2], LogReturnOn(s[2]))

SpecVaRLater == InitVaRLater /\ [][NextVaRLater]_vars

\* the keys calculateVaRStats computes from a table of log returns
VaRKeysOf(table) ==
    UNION {LET logReturns == logReturnsOf(table, c)
           IN  {VaRKey(VaRRow(c, logReturns, i)) :
                    i \in (MINIMUM_DATA_POINTS - 1)..(Len(logReturns) - 1)} :
           c \in DOMAIN cryptocurrencies}

StoredVaRKeys == {VaRKey(crypto_var[id]) : id \in DOMAIN crypto_var}

\* C34: an INSERT rejected for a duplicate key makes its run give up the remaining
\* dates of that asset only: one error is counted, nothing is written, and the run goes
\* on with the next asset of its queue; and when a run that began after the
\* overlapping runs had ended is done, every key of the log returns is stored
C34_DuplicateAbandonsAssetAndLaterRunCompletes ==
    /\ [][\A r \in DOMAIN vr :
            vr'[r].errors # vr[r].errors =>
                /\ vr'[r].errors = vr[r].errors + 1
                /\ crypto_var' = crypto_var
                /\ vr'[r].pc = "run"
                /\ vr'[r].queue = Tail(vr[r].queue)
                /\ vr'[r].totalCalculated = vr[r].totalCalculated]_vars
    /\ [](vr[LaterRun].pc = "done" => VaRKeysOf(crypto_log_returns) \subseteq StoredVaRKeys)

\* a run lost an asset to a duplicate key and went on to insert for the next asset; the
\* overlapping runs ended with a key missing, and the later run inserted it
C34_Witness ==
    /\ vr[LaterRun].pc = "done"
    /\ vr[LaterRun].totalCalculated > 0
    /\ \E r \in Racers :
         /\ vr[r].errors = 1
         /\ vr[r].totalCalculated > 0
    /\ VaRKeysOf(crypto_log_returns) = StoredVaRKeys

(***************************************************************************)
(* Portfolio volatility: calculatePortfolioVolatility.  A run is a loop    *)
(* over the dates of crypto_log_returns that have no portfolio_volatility  *)
(* row; between two runs the log-return calculator may store a return.     *)
(* The volatilities themselves are square roots and are left out of the    *)
(* rows.                                                                   *)
(***************************************************************************)
PV_MAX_CONSTITUENTS == 40
CANDIDATE_POOL_SIZE == 80
PV_MIN_VOLUME_24H == 2000000

MaxPVRuns == 2          \* runs of the portfolio-volatility command

\* SELECT id FROM index_config WHERE is_active = TRUE: the ids LIMIT 1 may return
ActiveConfigIds == {id \in DOMAIN index_config : index_config[id].is_active}

\* a dates query that looks only past the latest stored date
datesToComputeAfterLatest(indexConfigId) ==
    LET stored == {portfolio_volatility[id].date : id \in
                      {i \in DOMAIN portfolio_volatility :
                          portfolio_volatility[i].index_config_id = indexConfigId}}
        dates == AscendingDates({k[2] : k \in {q \in DOMAIN crypto_log_returns :
                     q[2] < Today /\ \A s \in stored : q[2] > s}})
    IN  [n \in 1..Len(dates) |-> dates[(Len(dates) + 1) - n]]

\* the dates query: the dates of crypto_log_returns before today without a
\* portfolio_volatility row for the config, ORDER BY date DESC
datesToCompute(indexConfigId) ==
    LET stored == {portfolio_volatility[id].date : id \in
                      {i \in DOMAIN portfolio_volatility :
                          portfolio_volatility[i].index_config_id = indexConfigId}}
        dates == AscendingDates({k[2] : k \in {q \in DOMAIN crypto_log_returns :
                     q[2] < Today /\ q[2] \notin stored}})
    IN  [n \in 1..Len(dates) |-> dates[(Len(dates) + 1) - n]]

\* the candidates query and its filter: the ohlc rows of the date at midnight with a
\* positive market cap and enough volume, ORDER BY market cap DESC (rows of equal
\* market cap in either order of their ids), the excluded categories removed, the
\* first CANDIDATE_POOL_SIZE kept
getTopCryptosForDate(date, tieAsc) ==
    LET Before(a, b) ==
            \/ a.marketCap > b.marketCap
            \/ /\ a.marketCap = b.marketCap
               /\ IF tieAsc THEN a.crypto_id < b.crypto_id ELSE a.crypto_id > b.crypto_id
        keys == SelectSeq([c \in 1..Cardinality(DOMAIN cryptocurrencies) |->
                              <<c, Midnight(date)>>],
                          LAMBDA key :
                              /\ key \in DOMAIN ohlc
                              /\ ohlc[key].market_cap > 0
                              /\ ohlc[key].volume >= PV_MIN_VOLUME_24H)
        candidates == [i \in 1..Len(keys) |->
                          [crypto_id |-> keys[i][1],
                           marketCap |-> ohlc[keys[i]].market_cap,
                           categories |-> IF keys[i][1] \in DOMAIN cryptocurrency_metadata
                                          THEN cryptocurrency_metadata[keys[i][1]]
                                          ELSE {}]]
        filtered == SelectSeq(SortSeq(candidates, Before), LAMBDA c : ~isExcluded(c))
    IN  [i \in 1..Min(CANDIDATE_POOL_SIZE, Len(filtered)) |->
            [crypto_id |-> filtered[i].crypto_id, marketCap |-> filtered[i].marketCap]]

\* COUNT(*) of the log returns of the crypto with date <= ?
availableDays(cryptoId, date) ==
    Cardinality({k \in DOMAIN crypto_log_returns : k[1] = cryptoId /\ k[2] <= date})

\* a selection that does not stop at MAX_CONSTITUENTS
selectConstituentsWithDataUncapped(candidates, date) ==
    SelectSeq(candidates,
              LAMBDA c : availableDays(c.crypto_id, date) >= MINIMUM_WINDOW_DAYS)

\* the first MAX_CONSTITUENTS candidates with MINIMUM_WINDOW_DAYS log returns or more
selectConstituentsWithData(candidates, date) ==
    LET withData == SelectSeq(candidates,
            LAMBDA c : availableDays(c.crypto_id, date) >= MINIMUM_WINDOW_DAYS)
    IN  SubSeq(withData, 1, Min(PV_MAX_CONSTITUENTS, Len(withData)))

\* the returns query for one constituent: the DEFAULT_WINDOW_DAYS latest log returns
\* with date <= endDate, in chronological order; each value is kept with the date of
\* its row
lastReturns(cryptoId, endDate) ==
    LET dates == AscendingDates({k[2] : k \in {q \in DOMAIN crypto_log_returns :
                     q[1] = cryptoId /\ q[2] <= endDate}})
        first == IF Len(dates) > DEFAULT_WINDOW_DAYS
                 THEN (Len(dates) - DEFAULT_WINDOW_DAYS) + 1 ELSE 1
    IN  [n \in 1..((Len(dates) - first) + 1) |->
            [date |-> dates[(first + n) - 1],
             log_return |-> crypto_log_returns[<<cryptoId, dates[(first + n) - 1]>>]]]

getConstituentReturns(constituents, endDate) ==
    [i \in 1..Len(constituents) |->
        [crypto_id |-> constituents[i].crypto_id, marketCap |-> constituents[i].marketCap,
         returns |-> lastReturns(constituents[i].crypto_id, endDate)]]

RECURSIVE SumMarketCap(_, _, _)
\* the sum of the marketCap of constituents[from..to]
SumMarketCap(constituents, from, to) ==
    IF from > to THEN 0
    ELSE IF from = to THEN constituents[from].marketCap
    ELSE SumMarketCap(constituents, from, (from + to) \div 2)
         + SumMarketCap(constituents, ((from + to) \div 2) + 1, to)

\* returns.slice(-effectiveWindowDays)
SliceLast(returns, n) == SubSeq(returns, (Len(returns) - n) + 1, Len(returns))

NotCalculated == [calculated |-> FALSE, normalizedConstituents |-> << >>]

\* calculatePortfolioVolatilityForDate up to its INSERT statements: whether the date
\* is calculated, and with which window and constituents
calculatePortfolioVolatilityForDate(date, tieAsc) ==
    LET candidates == getTopCryptosForDate(date, tieAsc)
        constituents == selectConstituentsWithData(candidates, date)
        constituentsWithReturns ==
            SelectSeq(getConstituentReturns(constituents, date),
                      LAMBDA c : Len(c.returns) > 0)
        maxAvailableDays == SetMax({Len(constituentsWithReturns[i].returns) :
                                       i \in DOMAIN constituentsWithReturns})
        effectiveWindowDays == Min(maxAvailableDays, DEFAULT_WINDOW_DAYS)
        eligibleConstituents ==
            SelectSeq(constituentsWithReturns,
                      LAMBDA c : Len(c.returns) >= effectiveWindowDays)
    IN  IF Len(candidates) = 0 THEN NotCalculated
        ELSE IF Len(constituents) = 0 THEN NotCalculated
        ELSE IF Len(constituentsWithReturns) < 10 THEN NotCalculated
        ELSE IF effectiveWindowDays < MINIMUM_WINDOW_DAYS THEN NotCalculated
        ELSE IF Len(eligibleConstituents) < 10 THEN NotCalculated
        ELSE [calculated |-> TRUE,
              effectiveWindowDays |-> effectiveWindowDays,
              normalizedConstituents |->
                  [i \in 1..Len(eligibleConstituents) |->
                      [eligibleConstituents[i] EXCEPT
                          !.returns = SliceLast(@, effectiveWindowDays)]]]

\* the portfolio_volatility row of a calculated date
PVRow(indexConfigId, date, result) ==
    [index_config_id |-> indexConfigId, date |-> date,
     window_days |-> result.effectiveWindowDays,
     num_constituents |-> Len(result.normalizedConstituents),
     total_market_cap_usd |->
         SumMarketCap(result.normalizedConstituents, 1, Len(result.normalizedConstituents))]

\* storeConstituentVolatilities: one row per constituent, with its weight
storeConstituentVolatilities(table, portfolioVolatilityId, constituents) ==
    LET totalMarketCap == SumMarketCap(constituents, 1, Len(constituents))
    IN  table @@ (portfolioVolatilityId :>
            [c \in {constituents[i].crypto_id : i \in DOMAIN constituents} |->
                LET i == CHOOSE j \in DOMAIN constituents : constituents[j].crypto_id = c
                IN  [weight |-> Frac(constituents[i].marketCap, totalMarketCap),
                     market_cap_usd |-> constituents[i].marketCap]])

\* skipped: the dates this run did not calculate; skippedBefore: those of the run
\* before it; normalizedConstituents: the local of the latest call of
\* calculatePortfolioVolatilityForDate
PvIdle ==
    [pc |-> "idle", indexConfigId |-> 0, dates |-> << >>,
     totalCalculated |-> 0, totalSkipped |-> 0, runs |-> 0,
     skipped |-> {}, skippedBefore |-> {}, normalizedConstituents |-> << >>]

OtherThanPVIdle ==
    /\ crypto_moving_averages = << >>
    /\ ma = << >>
    /\ crypto_var = << >>
    /\ vr = << >>

\* calculatePortfolioVolatility up to its loop
StartPV ==
    /\ pv.pc = "idle"
    /\ pv.runs < MaxPVRuns
    /\ ActiveConfigIds # {}
    /\ \E indexConfigId \in ActiveConfigIds :
         pv' = [pv EXCEPT !.pc = "run", !.indexConfigId = indexConfigId,
                          !.dates = datesToCompute(indexConfigId),
                          !.totalCalculated = 0, !.totalSkipped = 0,
                          !.skipped = {}, !.skippedBefore = pv.skipped,
                          !.normalizedConstituents = << >>]
    /\ UNCHANGED <<commandVars, cryptocurrencies, market_data, backfillVars, indexVars,
                   crypto_moving_averages, ma, crypto_log_returns, crypto_var, vr,
                   portfolio_volatility, portfolio_volatility_constituents>>

\* getIndexConfigId throws: the command fails before it reads a date
StartPVWithoutConfig ==
    /\ pv.pc = "idle"
    /\ pv.runs < MaxPVRuns
    /\ ActiveConfigIds = {}
    /\ pv' = [pv EXCEPT !.runs = @ + 1]
    /\ UNCHANGED <<commandVars, cryptocurrencies, market_data, backfillVars, indexVars,
                   crypto_moving_averages, ma, crypto_log_returns, crypto_var, vr,
                   portfolio_volatility, portfolio_volatility_constituents>>

\* one iteration of the loop of calculatePortfolioVolatility
PVForDate ==
    /\ pv.pc = "run"
    /\ pv.dates # << >>
    /\ \E tieAsc \in BOOLEAN :
       \E result \in {calculatePortfolioVolatilityForDate(Head(pv.dates), tieAsc)} :
         IF result.calculated
         THEN /\ portfolio_volatility' =
                     Append(portfolio_volatility,
                            PVRow(pv.indexConfigId, Head(pv.dates), result))
              /\ portfolio_volatility_constituents' =
                     storeConstituentVolatilities(portfolio_volatility_constituents,
                                                  Len(portfolio_volatility) + 1,
                                                  result.normalizedConstituents)
              /\ pv' = [pv EXCEPT !.dates = Tail(@), !.totalCalculated = @ + 1,
                                  !.normalizedConstituents = result.normalizedConstituents]
         ELSE /\ UNCHANGED <<portfolio_volatility, portfolio_volatility_constituents>>
              /\ pv' = [pv EXCEPT !.dates = Tail(@), !.totalSkipped = @ + 1,
                                  !.skipped = @ \cup {Head(pv.dates)},
                                  !.normalizedConstituents = << >>]
    /\ UNCHANGED <<commandVars, cryptocurrencies, market_data, backfillVars, indexVars,
                   crypto_moving_averages, ma, crypto_log_returns, crypto_var, vr>>

PVDone ==
    /\ pv.pc = "run"
    /\ pv.dates = << >>
    /\ pv' = [pv EXCEPT !.pc = "idle", !.runs = @ + 1]
    /\ UNCHANGED <<commandVars, cryptocurrencies, market_data, backfillVars, indexVars,
                   crypto_moving_averages, ma, crypto_log_returns, crypto_var, vr,
                   portfolio_volatility, portfolio_volatility_constituents>>

PVAssets == [c \in 1..85 |-> [symbol |-> c, coingecko_id |-> "coin", image_url |-> NULL]]

PVMetadata == (2 :> {<<"Stablecoins">>})

\* assets 1..14: a return on each of the 95 days up to yesterday (asset 4 with all of
\* them, or without the day 50 back, or without yesterday); assets 15..45: the 10 days from 95 to 86 back and the
\* 3 days up to yesterday, asset 15 also the 5 days from 85 to 81 back; assets 46..85:
\* none
PVLogReturns(hole4) ==
    [k \in ({<<c, Today - i>> : c \in 1..14, i \in 1..95} \ hole4)
           \cup {<<c, Today - i>> : c \in 15..45, i \in (86..95) \cup (1..3)}
           \cup {<<15, Today - i>> : i \in 81..85}
       |-> LogReturnOn(k[2] + k[1])]

\* the ohlc rows that carry a market cap: yesterday assets 1..45; 80 days back assets
\* 1..11 and 15..45; 86 days back every asset; 88 and 92 days back assets 5..9; 89 days
\* back assets 1..14.  The market cap falls with the id; asset 3 lacks volume, asset 14
\* has no market cap 89 days back.
PVOhlcKeys ==
    {<<c, Midnight(Today - 1)>> : c \in 1..45}
    \cup {<<c, Midnight(Today - 80)>> : c \in (1..11) \cup (15..45)}
    \cup {<<c, Midnight(Today - 86)>> : c \in 1..85}
    \cup {<<c, Midnight(Today - i)>> : c \in 5..9, i \in {88, 92}}
    \cup {<<c, Midnight(Today - 89)>> : c \in 1..14}

PVOhlc ==
    [k \in PVOhlcKeys |->
        [open |-> 1, high |-> 1, low |-> 1, close |-> 1,
         volume |-> IF k[1] = 3 THEN PV_MIN_VOLUME_24H - 1 ELSE PV_MIN_VOLUME_24H,
         market_cap |-> IF k = <<14, Midnight(Today - 89)>> THEN 0 ELSE 1000 - k[1]]]

\* the returns the log-return calculator stores between two runs
PVStoredLater == {<<15, Today - 80>>, <<4, Today - 50>>}

InitPV ==
    /\ cryptocurrencies = PVAssets
    /\ cryptocurrency_metadata = PVMetadata
    /\ ohlc = PVOhlc
    /\ \E hole4 \in {{}, {<<4, Today - 50>>}, {<<4, Today - 1>>}} :
         crypto_log_returns = PVLogReturns(hole4)
    /\ index_config \in {<< >>, 1 :> SentinelConfig}
    /\ market_data = << >>
    /\ bf = BfIdle
    /\ fetchLog = << >>
    /\ bfStart = [ohlc |-> {}, market_data |-> {}]
    /\ index_history = << >>
    /\ index_constituents = << >>
    /\ ix = << >>
    /\ ingested = 0
    /\ portfolio_volatility = << >>
    /\ portfolio_volatility_constituents = << >>
    /\ pv = PvIdle
    /\ OtherThanPVIdle
    /\ CommandsIdle

NextPV ==
    \/ StartPV
    \/ StartPVWithoutConfig
    \/ PVForDate
    \/ PVDone
    \/ \E s \in PVStoredLater : LogReturnInsert(s[1], s[2], LogReturnOn(s[2] + s[1]))

SpecPV == InitPV /\ [][NextPV]_vars

\* the ids of the rows the step inserted
NewPVIds == DOMAIN portfolio_volatility' \ DOMAIN portfolio_volatility

\* the constituents stored for the row that have window_days log returns or more up to
\* the date of the row
ConstituentsWithWindow(id) ==
    {c \in DOMAIN portfolio_volatility_constituents'[id] :
        Cardinality({k \in DOMAIN crypto_log_returns :
            k[1] = c /\ k[2] <= portfolio_volatility'[id].date})
        >= portfolio_volatility'[id].window_days}

\* C27: every portfolio_volatility row has 10 to 40 constituents, stored one by one,
\* and a window of 7 to 90 days; a row is inserted only for a date on which 10
\* constituents or more have that window of log returns.
C27_ConstituentsAndWindowInRange ==
    [][\A id \in NewPVIds :
          /\ portfolio_volatility'[id].num_constituents >= 10
          /\ portfolio_volatility'[id].num_constituents <= 40
          /\ portfolio_volatility'[id].window_days >= 7
          /\ portfolio_volatility'[id].window_days <= 90
          /\ Cardinality(DOMAIN portfolio_volatility_constituents'[id])
                = portfolio_volatility'[id].num_constituents
          /\ ConstituentsWithWindow(id) = DOMAIN portfolio_volatility_constituents'[id]
      ]_vars

\* a run has stored a row of 40 constituents, a row with the window of 7 days and a
\* row with the window of 90 days, and has skipped the date on which 9 constituents
\* have the window of 16 days
C27_Witness ==
    /\ \E id \in DOMAIN portfolio_volatility : portfolio_volatility[id].num_constituents = 40
    /\ \E id \in DOMAIN portfolio_volatility : portfolio_volatility[id].window_days = 7
    /\ \E id \in DOMAIN portfolio_volatility : portfolio_volatility[id].window_days = 90
    /\ (Today - 80) \in pv.skipped

\* C28: for the portfolio_volatility row just stored, the return series of every
\* constituent has window_days observations, ends on the date of the row, and its
\* k-th observation is of the same day as the k-th observation of every other series.
C28_SeriesAlignedByDay ==
    pv.normalizedConstituents # << >> =>
        \A i \in DOMAIN pv.normalizedConstituents :
            \E row \in {portfolio_volatility[Len(portfolio_volatility)]},
               series \in {pv.normalizedConstituents[i].returns} :
                /\ Len(series) = row.window_days
                /\ series[Len(series)].date = row.date
                /\ \A k \in DOMAIN series :
                       series[k].date = pv.normalizedConstituents[1].returns[k].date

\* C29: the step that skips a date stores no portfolio_volatility row and no
\* constituent row, and every date a run skipped is among the dates the next run sets
\* out to compute.
C29_SkippedDateIsRetried ==
    [][/\ \A date \in pv'.skipped \ pv.skipped :
            /\ portfolio_volatility' = portfolio_volatility
            /\ portfolio_volatility_constituents' = portfolio_volatility_constituents
            /\ \A id \in DOMAIN portfolio_volatility :
                   portfolio_volatility[id].date # date
       /\ (pv.pc = "idle" /\ pv'.pc = "run") =>
            \A date \in pv.skipped : \E n \in DOMAIN pv'.dates : pv'.dates[n] = date
      ]_vars

\* the second run is about to compute again the date that the first run skipped with 9
\* eligible constituents, and that date still has no row
C29_Witness ==
    /\ pv.pc = "run"
    /\ pv.runs = 1
    /\ (Today - 80) \in pv.skippedBefore
    /\ \E n \in DOMAIN pv.dates : pv.dates[n] = Today - 80
    /\ \A id \in DOMAIN portfolio_volatility : portfolio_volatility[id].date # Today - 80

\* C33: within one index run the missing timestamps are processed in strictly
\* ascending order: the run works through the list it read, and each timestamp it
\* turns to is later than the one before
C33_AscendingWithinRun ==
    [][\A r \in DOMAIN ix :
         /\ ix[r].pc \in {"calc", "store_constituents"}
         /\ ix'[r].pc \in {"calc", "store_constituents"}
         /\ ix'[r].i # ix[r].i
         => /\ ix'[r].missingTimestamps = ix[r].missingTimestamps
            /\ ix'[r].i = ix[r].i + 1
            /\ ix'[r].missingTimestamps[ix'[r].i] > ix[r].missingTimestamps[ix[r].i]]_vars

\* a run that read several missing timestamps has stored the first and is at the second
C33_Witness ==
    \E r \in DOMAIN ix :
        /\ ix[r].pc = "calc"
        /\ Len(ix[r].missingTimestamps) >= 2
        /\ ix[r].i = 2
        /\ ix[r].successCount = 1
        /\ <<ix[r].indexConfig.id, ix[r].missingTimestamps[1]>> \in DOMAIN index_history

\* the value of the last point of day d in a series, 0 when the series has no point of
\* that day
IsLastPointOfDay(series, d, value) ==
    IF \E i \in DOMAIN series : formatDateString(series[i][1]) = d
    THEN \E i \in DOMAIN series :
            /\ formatDateString(series[i][1]) = d
            /\ \A j \in DOMAIN series : j > i => formatDateString(series[j][1]) # d
            /\ value = series[i][2]
    ELSE value = 0

\* C38: for every payload the backfill fetched, the daily aggregation holds exactly one
\* observation for each day other than today that occurs in the price series and none
\* for any other day; its price is the value of the last point of that day in the price
\* series, and its market cap and volume are the last points of that day in their own
\* series, 0 when the day does not occur there
C38_LastPointPerDay ==
    \A n \in DOMAIN fetchLog :
        LET data == fetchLog[n].response
            dailyData == aggregateToDailyData(data)
        IN  /\ DOMAIN dailyData =
                   {formatDateString(data.prices[i][1]) : i \in DOMAIN data.prices} \ {Today}
            /\ \A d \in DOMAIN dailyData :
                   /\ IsLastPointOfDay(data.prices, d, dailyData[d].price)
                   /\ IsLastPointOfDay(data.market_caps, d, dailyData[d].marketCap)
                   /\ IsLastPointOfDay(data.total_volumes, d, dailyData[d].volume)

\* both a payload with several points on one day and a point of today, and a payload
\* whose market caps and volumes end before its prices, were fetched and aggregated
C38_Witness ==
    /\ \E n \in DOMAIN fetchLog :
         /\ fetchLog[n].response = PayloadDaily
         /\ aggregateToDailyData(PayloadDaily)[Yesterday].price = 3
         /\ aggregateToDailyData(PayloadDaily)[Yesterday].marketCap = 30
         /\ Today \notin DOMAIN aggregateToDailyData(PayloadDaily)
    /\ \E n \in DOMAIN fetchLog :
         /\ fetchLog[n].response = PayloadRagged
         /\ aggregateToDailyData(PayloadRagged)[Today - 2].marketCap = 0
         /\ aggregateToDailyData(PayloadRagged)[Today - 2].volume = 0
         /\ aggregateToDailyData(PayloadRagged)[Today - 30].price = 5
    /\ ohlc # << >>

\* market_data rows of an asset dated within the trailing HOURLY_BACKFILL_DAYS days
RecentEntries(c) ==
    Cardinality({k \in DOMAIN market_data :
                    k[1] = c /\ k[2] >= Midnight(Today - HOURLY_BACKFILL_DAYS)})

\* C39: the hourly pass queues an asset exactly when it has an external id and fewer
\* than 500 market_data rows dated within the trailing 90 days, so an asset with 500
\* or more queues nothing; the pass issues one fetch for each queued asset and no
\* other, and each of these fetches asks for 90 days
C39_HourlyFetchIffFewEntries ==
    /\ [][bf.pc = "daily" /\ bf'.pc = "hourly" =>
            /\ {bf'.queue[n] : n \in DOMAIN bf'.queue}
                   = {c \in DOMAIN cryptocurrencies :
                         /\ cryptocurrencies[c].coingecko_id # NULL
                         /\ RecentEntries(c) < 500}
            /\ \A n1, n2 \in DOMAIN bf'.queue : bf'.queue[n1] = bf'.queue[n2] => n1 = n2
            /\ fetchLog' = fetchLog]_vars
    /\ [][bf.pc = "hourly" /\ (bf'.queue # bf.queue \/ fetchLog' # fetchLog) =>
            /\ bf.queue # << >>
            /\ bf'.queue = Tail(bf.queue)
            /\ Len(fetchLog') = Len(fetchLog) + 1
            /\ SubSeq(fetchLog', 1, Len(fetchLog)) = fetchLog
            /\ fetchLog'[Len(fetchLog')].coingecko_id
                   = cryptocurrencies[Head(bf.queue)].coingecko_id
            /\ fetchLog'[Len(fetchLog')].days = 90]_vars

\* the backfill has ended: an asset with fewer than 500 recent rows at the end (and so
\* at the detection) was fetched for 90 days, and an asset with an external id and 500
\* rows or more was not fetched by the hourly pass
C39_Witness ==
    /\ bf.pc = "done"
    /\ bf.hourlyStats.apiCalls = 1
    /\ fetchLog[Len(fetchLog)].days = 90
    /\ \E c \in DOMAIN cryptocurrencies :
         /\ cryptocurrencies[c].coingecko_id = fetchLog[Len(fetchLog)].coingecko_id
         /\ RecentEntries(c) < 500
    /\ \E c \in DOMAIN cryptocurrencies :
         /\ cryptocurrencies[c].coingecko_id # NULL
         /\ cryptocurrencies[c].coingecko_id # fetchLog[Len(fetchLog)].coingecko_id
         /\ RecentEntries(c) >= 500

(***************************************************************************)
(* A portfolio volatility run whose process dies inside                    *)
(* storeConstituentVolatilities, after the portfolio_volatility row of a   *)
(* date is stored                                                          *)
(***************************************************************************)
\* the rows storeConstituentVolatilities has inserted when the process dies after the
\* first k constituents
storedBeforeCrash(table, portfolioVolatilityId, constituents, k) ==
    IF k = 0 THEN table
    ELSE LET all == storeConstituentVolatilities(table, portfolioVolatilityId,
                                                 constituents)[portfolioVolatilityId]
         IN  table @@ (portfolioVolatilityId :>
                 [c \in {constituents[i].crypto_id : i \in 1..k} |-> all[c]])

\* calculatePortfolioVolatilityForDate in the first run of a behaviour, ended by the
\* death of the process before the last constituent row is inserted
PVCrash ==
    /\ pv.pc = "run"
    /\ pv.runs = 0
    /\ pv.dates # << >>
    /\ \E tieAsc \in BOOLEAN :
       \E result \in {calculatePortfolioVolatilityForDate(Head(pv.dates), tieAsc)} :
       \E k \in {0, Len(result.normalizedConstituents) - 1} :
         /\ result.calculated
         /\ portfolio_volatility' =
                Append(portfolio_volatility,
                       PVRow(pv.indexConfigId, Head(pv.dates), result))
         /\ portfolio_volatility_constituents' =
                storedBeforeCrash(portfolio_volatility_constituents,
                                  Len(portfolio_volatility) + 1,
                                  result.normalizedConstituents, k)
         /\ pv' = [pv EXCEPT !.pc = "idle", !.runs = @ + 1, !.dates = << >>,
                             !.normalizedConstituents = << >>]
    /\ UNCHANGED <<commandVars, cryptocurrencies, market_data, backfillVars, indexVars,
                   crypto_moving_averages, ma, crypto_log_returns, crypto_var, vr>>

NextPVCrash ==
    \/ StartPV
    \/ StartPVWithoutConfig
    \/ PVForDate
    \/ PVDone
    \/ PVCrash
    \/ \E s \in PVStoredLater : LogReturnInsert(s[1], s[2], LogReturnOn(s[2] + s[1]))

SpecPVCrash == InitPV /\ [][NextPVCrash]_vars

\* C37: when a run has completed after a run that died between the insert of a
\* portfolio_volatility row and the last of its constituent rows, every
\* portfolio_volatility row has as many constituent rows as it counts constituents
C37_ConstituentsCompleteAfterNextRun ==
    pv.pc = "idle" /\ pv.runs >= 2 =>
        \A id \in DOMAIN portfolio_volatility :
            /\ id \in DOMAIN portfolio_volatility_constituents
            /\ Cardinality(DOMAIN portfolio_volatility_constituents[id])
                   = portfolio_volatility[id].num_constituents

(***************************************************************************)
(* Index runs next to a backfill that is still writing the rows of a       *)
(* timestamp: the row of one more asset arrives while the runs execute     *)
(***************************************************************************)
\* rows the backfill has yet to write: asset 81 at T1, with a market cap above those of
\* the smallest constituents
LatePoints ==
    { [crypto_id |-> 81, timestamp |-> T1, price |-> 7, supply |-> 1,
       volume |-> MIN_VOLUME_24H] }

\* the market_data insert of the backfill for an asset it reaches after others
LateBackfillInsert ==
    /\ ingested < MaxIngest
    /\ \E p \in LatePoints :
         market_data' = insertMarketDataRecord(market_data, p.crypto_id, p.timestamp,
                                               p.price, p.supply, p.volume)
    /\ market_data' # market_data
    /\ ingested' = ingested + 1
    /\ UNCHANGED <<commandVars, cryptocurrencies, backfillVars, cryptocurrency_metadata,
                   index_config, index_history, index_constituents, ix>>
    /\ UNCHANGED metricVars

InitPartial ==
    /\ cryptocurrencies = IndexAssets
    /\ cryptocurrency_metadata = IndexMetadata
    /\ market_data = IndexMarketData(TRUE)
    /\ index_config \in {<< >>, 1 :> SentinelConfig}
    /\ index_history = << >>
    /\ index_constituents = << >>
    /\ ix = [r \in IndexRuns |-> IxIdle]
    /\ ingested = 0
    /\ ohlc = << >>
    /\ bf = BfIdle
    /\ fetchLog = << >>
    /\ bfStart = [ohlc |-> {}, market_data |-> {}]
    /\ MetricsIdle
    /\ CommandsIdle

NextPartial ==
    \/ \E r \in IndexRuns :
         \/ SelectConfig(r)
         \/ InitializeConfig(r)
         \/ GetMissing(r)
         \/ Calculate(r)
         \/ StoreConstituents(r)
    \/ LateBackfillInsert

SpecPartial == InitPartial /\ [][NextPartial]_vars

\* C35: every index_history row reflects the complete set of market_data rows that
\* exist at its timestamp: its total is the one the calculation yields from the rows of
\* that timestamp, also when ingestion wrote rows of the timestamp while the run executed
C35_HistoryReflectsCompleteSnapshot ==
    \A key \in DOMAIN index_history :
        \E tieAsc \in BOOLEAN :
            LET constituents == selectConstituents(getMarketDataForTimestamp(key[2], tieAsc))
            IN  /\ ~InsufficientConstituents(constituents)
                /\ index_history[key].total_market_cap_usd = SumCaps(constituents, 1)

(***************************************************************************)
(* The commands and their credential: the live snapshot command            *)
(* (fetchCryptoMarketData.js) run after run, next to one backfill run      *)
(***************************************************************************)
MaxSnapshotRuns == 2    \* live snapshot runs of a behaviour

NotConfigured == [COINGECKO_API_KEY |-> ""]

\* pages of /coins/markets as the provider may answer them
ItemBitcoin ==
    [id |-> "bitcoin", symbol |-> "btc", image |-> "bitcoin.png", current_price |-> 3,
     circulating_supply |-> 4, total_volume |-> 9, market_cap_rank |-> 1]
ItemBatcat ==
    [id |-> "batcat", symbol |-> "BTC", image |-> "batcat.png", current_price |-> 1,
     market_cap_rank |-> 300]
ItemSolana ==
    [id |-> "solana", symbol |-> "sol", current_price |-> 2, circulating_supply |-> 5,
     total_volume |-> 7, market_cap_rank |-> 2]
ItemEthereum ==
    [id |-> "ethereum", symbol |-> "eth", image |-> "ethereum.png", current_price |-> 2,
     circulating_supply |-> 6, total_volume |-> 8, market_cap_rank |-> 3]
ItemWithoutSymbol == [id |-> "ghost", current_price |-> 1]

PageOf(items) == [ok |-> TRUE, isArray |-> TRUE, items |-> items]
PageHttpError == [ok |-> FALSE, isArray |-> FALSE, items |-> << >>]
PageInvalid == [ok |-> TRUE, isArray |-> FALSE, items |-> << >>]

PageResponses(page) ==
    IF page = 1
    THEN {PageOf(<<ItemBitcoin, ItemSolana>>), PageOf(<<ItemBatcat, ItemSolana>>), PageHttpError}
    ELSE {PageOf(<<ItemEthereum, ItemWithoutSymbol>>), PageInvalid}

\* the for...of loop over one page: processCrypto inside try/catch, an item that
\* throws (item.symbol is undefined) counts as an error and the loop goes on
RECURSIVE processPage(_, _, _)
processPage(acc, items, fetchTimestamp) ==
    IF items = << >> THEN acc
    ELSE LET item == Head(items)
         IN  IF "symbol" \notin DOMAIN item
             THEN processPage([acc EXCEPT !.errorCount = @ + 1], Tail(items), fetchTimestamp)
             ELSE LET got == getCryptoId(acc.cryptocurrencies, ToUpperCase(item.symbol),
                                         item.id, ImageOf(item))
                  IN  processPage(
                          [cryptocurrencies |-> got.table,
                           market_data |-> insertMarketData(acc.market_data, got.id, item,
                                                            fetchTimestamp),
                           successCount |-> acc.successCount + 1,
                           errorCount |-> acc.errorCount],
                          Tail(items), fetchTimestamp)

\* fetchCryptoMarketData up to the first page request; without the API key it throws
\* before anything else
StartSnapshot ==
    /\ snapshot.pc \in {"idle", "done", "failed"}
    /\ bf.pc \in {"idle", "done", "failed"}
    /\ snapshot.runs < MaxSnapshotRuns
    /\ IF config.COINGECKO_API_KEY = ""
       THEN snapshot' = [snapshot EXCEPT !.pc = "failed", !.runs = @ + 1]
       ELSE snapshot' = [snapshot EXCEPT !.pc = "page", !.page = 1, !.runs = @ + 1,
                                         !.fetchTimestamp = Midnight(Today) + snapshot.runs + 1,
                                         !.successCount = 0, !.errorCount = 0]
    /\ UNCHANGED <<config, fear_and_greed, fng, cryptocurrencies, market_data, backfillVars,
                   indexVars>>
    /\ UNCHANGED metricVars

\* one turn of the page loop: the request, the two checks of the response, and the
\* items of the page
SnapshotPage ==
    /\ snapshot.pc = "page"
    /\ \E response \in PageResponses(snapshot.page) :
         IF ~response.ok \/ ~response.isArray
         THEN /\ snapshot' = [snapshot EXCEPT !.pc = "failed",
                                              !.fetches = Append(@, snapshot.page)]
              /\ UNCHANGED <<cryptocurrencies, market_data>>
         ELSE \E acc \in {processPage([cryptocurrencies |-> cryptocurrencies,
                                       market_data |-> market_data,
                                       successCount |-> snapshot.successCount,
                                       errorCount |-> snapshot.errorCount],
                                      response.items, snapshot.fetchTimestamp)} :
                /\ cryptocurrencies' = acc.cryptocurrencies
                /\ market_data' = acc.market_data
                /\ snapshot' = [snapshot EXCEPT
                       !.pc = IF snapshot.page = 2 THEN "done" ELSE "page",
                       !.page = @ + 1,
                       !.fetches = Append(@, snapshot.page),
                       !.successCount = acc.successCount,
                       !.errorCount = acc.errorCount]
    /\ UNCHANGED <<config, fear_and_greed, fng, backfillVars, indexVars>>
    /\ UNCHANGED metricVars

CommandAssets(btcId) ==
    (1 :> [symbol |-> "BTC", coingecko_id |-> btcId, image_url |-> NULL]) @@
    (2 :> [symbol |-> "XRP", coingecko_id |-> NULL, image_url |-> NULL])

InitCommands ==
    /\ config \in {Configured, NotConfigured}
    /\ snapshot = SnapshotIdle
    /\ fear_and_greed = << >>
    /\ fng = FngIdle
    /\ \E btcId \in {NULL, "bitcoin"} : cryptocurrencies = CommandAssets(btcId)
    /\ ohlc = << >>
    /\ market_data = << >>
    /\ bf = BfIdle
    /\ fetchLog = << >>
    /\ bfStart = [ohlc |-> {}, market_data |-> {}]
    /\ cryptocurrency_metadata = << >>
    /\ index_config = << >>
    /\ index_history = << >>
    /\ index_constituents = << >>
    /\ ix = << >>
    /\ ingested = 0
    /\ MetricsIdle

NextCommands ==
    \/ StartBackfill
    \/ DailyDetect
    \/ DailyFetch
    \/ HourlyDetect
    \/ HourlyFetch
    \/ BackfillDone
    \/ StartSnapshot
    \/ SnapshotPage

SpecCommands == InitCommands /\ [][NextCommands]_vars

\* C31: when the API key is not configured, both the backfill command and the live
\* snapshot command end with an error, and no step of either reads or writes a table
\* or issues a request to the provider
C31_NoKeyNoWork ==
    [][config.COINGECKO_API_KEY = "" =>
         /\ UNCHANGED <<cryptocurrencies, ohlc, market_data, fetchLog, bfStart>>
         /\ snapshot'.fetches = snapshot.fetches
         /\ bf'.queue = bf.queue
         /\ bf' # bf => bf.pc = "idle" /\ bf'.pc = "failed"
         /\ snapshot' # snapshot => snapshot'.pc = "failed"]_vars

\* without the key, both commands have been started and have failed
C31_Witness ==
    /\ config.COINGECKO_API_KEY = ""
    /\ bf.pc = "failed"
    /\ snapshot.pc = "failed"
    /\ snapshot.runs = MaxSnapshotRuns
    /\ market_data = << >>
    /\ fetchLog = << >>

\* C32: over the live snapshot runs the asset table holds at most one row per
\* upper-cased symbol, and the external id of a row, once not null, is never changed by
\* a later snapshot (the image reference is what a snapshot refreshes)
OneRowPerSymbol(table) ==
    \A a, b \in DOMAIN table :
        ToUpperCase(table[a].symbol) = ToUpperCase(table[b].symbol) => a = b

C32_OneRowPerSymbolAndStableId ==
    /\ []OneRowPerSymbol(cryptocurrencies)
    /\ [][\A id \in DOMAIN cryptocurrencies :
            cryptocurrencies[id].coingecko_id # NULL =>
                /\ id \in DOMAIN cryptocurrencies'
                /\ cryptocurrencies'[id].coingecko_id = cryptocurrencies[id].coingecko_id
                /\ cryptocurrencies'[id].symbol = cryptocurrencies[id].symbol]_vars

\* the row of BTC held the id "bitcoin" when a later snapshot listed another coin with
\* the symbol BTC: the row took that coin's image and kept its id, and the symbols
\* the snapshots brought have one row each
C32_Witness ==
    /\ snapshot.runs = 2
    /\ snapshot.pc = "done"
    /\ cryptocurrencies[1].coingecko_id = "bitcoin"
    /\ cryptocurrencies[1].image_url = "batcat.png"
    /\ Cardinality(DOMAIN cryptocurrencies) = 4
    /\ \E id \in DOMAIN cryptocurrencies : cryptocurrencies[id].symbol = "SOL"

(***************************************************************************)
(* The Fear and Greed command (fetchFearAndGreed.js): the limit it asks    *)
(* the provider for, and the records it stores                             *)
(***************************************************************************)
MAX_BACKFILL_DAYS == 730
MaxFngRuns == 2         \* runs of the command in a behaviour

\* COALESCE(DATE(MAX(timestamp)), DATE_SUB(CURDATE(), INTERVAL 730 DAY))
LatestFngDate(table) ==
    IF DOMAIN table = {} THEN Today - MAX_BACKFILL_DAYS ELSE SetMax(DOMAIN table)

\* countMissingDays: DATEDIFF(CURDATE(), ...), then "|| MAX_BACKFILL_DAYS", which
\* replaces a difference of 0
countMissingDays(table) ==
    LET missing == Today - LatestFngDate(table)
    IN  IF missing = 0 THEN MAX_BACKFILL_DAYS ELSE missing

\* Math.min(Math.max(missingDays, 1), MAX_BACKFILL_DAYS)
FngLimit(missingDays) == Min(IF missingDays > 1 THEN missingDays ELSE 1, MAX_BACKFILL_DAYS)

\* the value the provider reports for a day
FngValueOn(d) == d % 100

\* answers of the provider to a request with that limit: the latest days up to today,
\* an HTTP error, or a body without data
FngResponses(limit) ==
    { [ok |-> TRUE, data |-> [d \in (Today - limit + 1)..Today |-> FngValueOn(d)]],
      [ok |-> FALSE, data |-> << >>],
      [ok |-> TRUE, data |-> << >>] }

\* fetchFearAndGreed
FetchFearAndGreed ==
    /\ fng.runs < MaxFngRuns
    /\ \E limit \in {FngLimit(countMissingDays(fear_and_greed))} :
       \E response \in FngResponses(limit) :
         /\ fng' = [fng EXCEPT !.runs = @ + 1, !.limits = Append(@, limit)]
         /\ IF ~response.ok \/ DOMAIN response.data = {}
            THEN UNCHANGED fear_and_greed
            ELSE fear_and_greed' =
                     [d \in DOMAIN fear_and_greed \cup DOMAIN response.data |->
                         IF d \in DOMAIN response.data THEN response.data[d]
                         ELSE fear_and_greed[d]]
    /\ UNCHANGED <<config, snapshot, cryptocurrencies, market_data, backfillVars, indexVars>>
    /\ UNCHANGED metricVars

\* the table before a run: empty, or with three records of which the latest is of
\* today, of one of the days before it, or of a day around the limit of the backfill
FngLatestDates == {Today - k : k \in (0..40) \cup {729, 730, 731, 900}}

InitFearAndGreed ==
    /\ config = Configured
    /\ snapshot = SnapshotIdle
    /\ fng = FngIdle
    /\ \/ fear_and_greed = << >>
       \/ \E latest \in FngLatestDates :
            fear_and_greed = [d \in (latest - 2)..latest |-> FngValueOn(d)]
    /\ cryptocurrencies = << >>
    /\ ohlc = << >>
    /\ market_data = << >>
    /\ bf = BfIdle
    /\ fetchLog = << >>
    /\ bfStart = [ohlc |-> {}, market_data |-> {}]
    /\ cryptocurrency_metadata = << >>
    /\ index_config = << >>
    /\ index_history = << >>
    /\ index_constituents = << >>
    /\ ix = << >>
    /\ ingested = 0
    /\ MetricsIdle

NextFearAndGreed == FetchFearAndGreed

SpecFearAndGreed == InitFearAndGreed /\ [][NextFearAndGreed]_vars

\* C40: the limit a run requests is the number of days between the date of the latest
\* stored record and today, clamped to 1..730: 1 when the latest record is of today,
\* 730 when the table is empty
C40_LimitIsMissingDaysClamped ==
    [][fng'.runs # fng.runs =>
         LET limit == fng'.limits[Len(fng'.limits)]
             days == Today - SetMax(DOMAIN fear_and_greed)
         IN  IF DOMAIN fear_and_greed = {} THEN limit = 730
             ELSE /\ days < 1 => limit = 1
                  /\ days \in 1..730 => limit = days
                  /\ days > 730 => limit = 730]_vars

====
